---- MODULE Spec2Model ----
(***************************************************************************)
(* memserv-light: the command engine (wire codec, parser/dispatcher,       *)
(* TTL-aware store, append-only persister and streaming replay).           *)
(*                                                                         *)
(* Text is a sequence of one-character strings; a wire value is a record   *)
(* [t, v] tagged with its JavaScript type.                                 *)
(***************************************************************************)
EXTENDS Integers, Sequences, FiniteSets, TLC

(***************************************************************************)
(* Text                                                                    *)
(***************************************************************************)
CR == "\r"
LF == "\n"
CRLF == <<CR, LF>>

DigitChars == <<"0", "1", "2", "3", "4", "5", "6", "7", "8", "9">>
UpperChars == <<"A", "B", "C", "D", "E", "F", "G", "H", "I", "J", "K", "L", "M",
                "N", "O", "P", "Q", "R", "S", "T", "U", "V", "W", "X", "Y", "Z">>
LowerChars == <<"a", "b", "c", "d", "e", "f", "g", "h", "i", "j", "k", "l", "m",
                "n", "o", "p", "q", "r", "s", "t", "u", "v", "w", "x", "y", "z">>
WhiteSpaceChars == {" ", "\t", CR, LF}

IsDigit(c) == \E i \in 1..10 : DigitChars[i] = c
DigitValue(c) == (CHOOSE i \in 1..10 : DigitChars[i] = c) - 1

\* String.prototype.toLowerCase
LowerChar(c) ==
    IF \E i \in 1..26 : UpperChars[i] = c
    THEN LowerChars[CHOOSE i \in 1..26 : UpperChars[i] = c]
    ELSE c
toLowerCase(s) == [i \in 1..Len(s) |-> LowerChar(s[i])]

\* String.prototype.substring(from) and substring(from, to), 0-based
substring(s, from) == IF from >= Len(s) THEN <<>> ELSE SubSeq(s, from + 1, Len(s))
substring2(s, from, to) ==
    LET t == IF to > Len(s) THEN Len(s) ELSE to
    IN  IF from >= t THEN <<>> ELSE SubSeq(s, from + 1, t)

\* s has pat at 0-based position i
HasAt(s, pat, i) ==
    /\ i >= 0
    /\ i + Len(pat) <= Len(s)
    /\ \A j \in 1..Len(pat) : s[i + j] = pat[j]

\* String.prototype.indexOf(pat, from): 0-based, -1 when absent
RECURSIVE indexOf(_, _, _)
indexOf(s, pat, from) ==
    IF from + Len(pat) > Len(s) THEN -1
    ELSE IF HasAt(s, pat, from) THEN from
    ELSE indexOf(s, pat, from + 1)

lastIndexOf(s, pat) ==
    IF \E i \in 0..Len(s) : HasAt(s, pat, i)
    THEN CHOOSE i \in 0..Len(s) :
            HasAt(s, pat, i) /\ \A j \in (i + 1)..Len(s) : ~HasAt(s, pat, j)
    ELSE -1

startsWith(s, pat) == HasAt(s, pat, 0)

\* String.prototype.split(CRLF)
RECURSIVE SplitFrom(_, _, _)
SplitFrom(s, i, cur) ==
    IF i > Len(s) THEN <<cur>>
    ELSE IF HasAt(s, CRLF, i - 1)
         THEN <<cur>> \o SplitFrom(s, i + 2, <<>>)
         ELSE SplitFrom(s, i + 1, Append(cur, s[i]))
split(s) == SplitFrom(s, 1, <<>>)

\* Array.prototype.join(sep) over texts
RECURSIVE join(_, _)
join(parts, sep) ==
    IF Len(parts) = 0 THEN <<>>
    ELSE IF Len(parts) = 1 THEN parts[1]
    ELSE parts[1] \o sep \o join(Tail(parts), sep)

RECURSIVE Concat(_)
Concat(parts) == IF Len(parts) = 0 THEN <<>> ELSE parts[1] \o Concat(Tail(parts))

(***************************************************************************)
(* JavaScript values                                                       *)
(***************************************************************************)
SV(s) == [t |-> "string", v |-> s]
NV(n) == [t |-> "number", v |-> n]
AV(items) == [t |-> "array", v |-> items]
NaN == [t |-> "NaN", v |-> 0]
Null == [t |-> "null", v |-> 0]
Undefined == [t |-> "undefined", v |-> 0]
\* true and false, as 1 and 0
BV(b) == [t |-> "boolean", v |-> IF b THEN 1 ELSE 0]

\* ToBoolean
Truthy(x) ==
    CASE x.t = "string" -> Len(x.v) > 0
      [] x.t = "number" -> x.v # 0
      [] x.t = "array" -> TRUE
      [] OTHER -> FALSE

\* Number.prototype.toString for integers
RECURSIVE NatToStr(_)
NatToStr(n) ==
    IF n < 10 THEN <<DigitChars[n + 1]>>
    ELSE Append(NatToStr(n \div 10), DigitChars[(n % 10) + 1])
IntToStr(n) == IF n < 0 THEN <<"-">> \o NatToStr(0 - n) ELSE NatToStr(n)

\* parseInt(s, 10): leading white space, an optional sign, the longest run of
\* digits; NaN when there is no digit
RECURSIVE SkipWhiteSpace(_)
SkipWhiteSpace(s) ==
    IF Len(s) > 0 /\ s[1] \in WhiteSpaceChars THEN SkipWhiteSpace(Tail(s)) ELSE s
RECURSIVE DigitsValue(_, _)
DigitsValue(s, acc) ==
    IF Len(s) > 0 /\ IsDigit(s[1])
    THEN DigitsValue(Tail(s), acc * 10 + DigitValue(s[1]))
    ELSE acc
\* the digits that follow the sign
ParseDigits(neg, body) ==
    IF Len(body) = 0 \/ ~IsDigit(body[1]) THEN NaN
    ELSE NV(IF neg THEN 0 - DigitsValue(body, 0) ELSE DigitsValue(body, 0))
\* the text after its leading white space
ParseSigned(s) ==
    ParseDigits(Len(s) > 0 /\ s[1] = "-",
                IF Len(s) > 0 /\ s[1] \in {"-", "+"} THEN Tail(s) ELSE s)
parseInt(str) == ParseSigned(SkipWhiteSpace(str))

\* String(x); an array is its elements joined by commas, null and undefined
\* elements giving the empty text
RECURSIVE String(_)
String(x) ==
    CASE x.t = "string" -> x.v
      [] x.t = "number" -> IntToStr(x.v)
      [] x.t = "NaN" -> <<"N", "a", "N">>
      [] x.t = "null" -> <<"n", "u", "l", "l">>
      [] x.t = "undefined" -> <<"u", "n", "d", "e", "f", "i", "n", "e", "d">>
      [] x.t = "array" ->
            join([i \in 1..Len(x.v) |->
                    IF x.v[i].t \in {"null", "undefined"} THEN <<>> ELSE String(x.v[i])],
                 <<",">>)

(***************************************************************************)
(* Wire codec (serializer/serializer.ts)                                   *)
(***************************************************************************)
OK == <<"+", "O", "K">> \o CRLF
PONG == <<"+", "P", "O", "N", "G">> \o CRLF
NULL == <<"$", "-", "1">> \o CRLF
ZERO == <<":", "0">> \o CRLF
ONE == <<":", "1">> \o CRLF

RECURSIVE serialize(_)
serialize(data) ==
    CASE data.t = "null" -> NULL
      [] data.t = "string" -> <<"+">> \o data.v \o CRLF
      [] data.t = "number" ->
            IF data.v = 0 THEN ZERO
            ELSE IF data.v = 1 THEN ONE
            ELSE <<":">> \o IntToStr(data.v) \o CRLF
      [] data.t = "NaN" -> <<":">> \o String(data) \o CRLF
      [] data.t = "boolean" -> IF data.v = 1 THEN ONE ELSE ZERO
      [] data.t = "array" ->
            IF Len(data.v) = 0 THEN <<"*", "0">> \o CRLF
            ELSE <<"*">> \o IntToStr(Len(data.v)) \o CRLF
                 \o Concat([i \in 1..Len(data.v) |-> serialize(data.v[i])])
      [] OTHER ->
            LET str == String(data)
            IN  <<"$">> \o IntToStr(Len(str)) \o CRLF \o str \o CRLF

\* A decoding step: ok = FALSE stands for a raised exception
Thrown == [ok |-> FALSE, value |-> Null, nextIndex |-> 0]
Parsed(value, nextIndex) == [ok |-> TRUE, value |-> value, nextIndex |-> nextIndex]

\* lines[index] with a 0-based index; undefined past the end
LineAt(lines, index) == IF index < Len(lines) THEN SV(lines[index + 1]) ELSE Undefined

RECURSIVE multiLineDeserialize(_, _)
RECURSIVE DeserializeItems(_, _, _, _)
\* one turn of the element loop, `parsed` being the element decoded
ItemDecoded(lines, remaining, result, parsed) ==
    IF ~parsed.ok THEN Thrown
    ELSE DeserializeItems(lines, parsed.nextIndex, remaining - 1,
                          Append(result, parsed.value))

\* the element loop of the array case: `remaining` elements still to decode
DeserializeItems(lines, currentIndex, remaining, result) ==
    IF remaining <= 0 THEN Parsed(AV(result), currentIndex)
    ELSE ItemDecoded(lines, remaining, result,
                     multiLineDeserialize(lines, currentIndex))

\* case '$'
BulkLine(lines, index, length) ==
    IF length = NV(-1) THEN Parsed(Null, index + 1)
    ELSE IF length = NV(0) THEN Parsed(SV(<<>>), index + 2)
    ELSE Parsed(LineAt(lines, index + 1), index + 2)

\* case '*': a count that is not a number leaves the loop without a turn
ArrayLines(lines, index, arrayLength) ==
    IF arrayLength = NV(0) THEN Parsed(AV(<<>>), index + 1)
    ELSE IF arrayLength.t = "NaN" THEN Parsed(AV(<<>>), index + 1)
    ELSE DeserializeItems(lines, index + 1, arrayLength.v, <<>>)

\* the switch on line[0]
TypedLine(lines, index, type, content) ==
    CASE type = "+" -> Parsed(SV(content), index + 1)
      [] type = ":" -> Parsed(parseInt(content), index + 1)
      [] type = "$" -> BulkLine(lines, index, parseInt(content))
      [] type = "*" -> ArrayLines(lines, index, parseInt(content))
      [] type = "-" -> Thrown
      [] OTHER -> Parsed(SV(content), index + 1)

\* an empty line has no line[0]: the default case
LineType(line) == IF Len(line) > 0 THEN line[1] ELSE "undefined"

multiLineDeserialize(lines, index) ==
    IF index >= Len(lines) THEN Thrown  \* line is undefined: line[0] raises
    ELSE TypedLine(lines, index, LineType(lines[index + 1]),
                   substring(lines[index + 1], 1))

\* a fast path that hands back the text of an integer line
SingleLineText(type, content) ==
    CASE type = "$" ->
            Parsed(IF content = <<"-", "1">> THEN Null ELSE SV(content), 1)
      [] type = "*" ->
            Parsed(IF content = <<"0">> THEN AV(<<>>) ELSE SV(content), 1)
      [] type = "-" -> Thrown
      [] OTHER -> Parsed(SV(content), 1)

\* the fast path for single-line responses
SingleLine(type, content) ==
    CASE type = "+" -> Parsed(SV(content), 1)
      [] type = ":" -> Parsed(parseInt(content), 1)
      [] type = "$" ->
            Parsed(IF content = <<"-", "1">> THEN Null ELSE SV(content), 1)
      [] type = "*" ->
            Parsed(IF content = <<"0">> THEN AV(<<>>) ELSE SV(content), 1)
      [] type = "-" -> Thrown
      [] OTHER -> Parsed(SV(content), 1)

\* deserialize: the value, or Thrown
deserialize(data) ==
    IF Len(data) = 0 THEN Thrown
    ELSE IF indexOf(data, CRLF, 0) = Len(data) - 2
    THEN SingleLine(data[1], substring2(data, 1, Len(data) - 2))
    ELSE multiLineDeserialize(split(data), 0)

formatError(data) ==
    <<"-", "E", "R", "R", "O", "R", " ">>
    \o (IF Truthy(data) THEN String(data)
        ELSE <<"U", "n", "k", "n", "o", "w", "n", " ", "e", "r", "r", "o", "r">>)
    \o CRLF

(***************************************************************************)
(* Store (store/database.ts)                                               *)
(*                                                                         *)
(* The Map is a sequence of entries in insertion order, each carrying its  *)
(* key.                                                                    *)
(***************************************************************************)
MapHas(store, key) == \E i \in 1..Len(store) : store[i].key = key
MapIndex(store, key) == CHOOSE i \in 1..Len(store) : store[i].key = key
MapGet(store, key) == store[MapIndex(store, key)]
MapSet(store, key, entry) ==
    LET e == [key |-> key, value |-> entry.value, createdAt |-> entry.createdAt,
              expiry |-> entry.expiry]
    IN  IF MapHas(store, key)
        THEN [store EXCEPT ![MapIndex(store, key)] = e]
        ELSE Append(store, e)
MapDelete(store, key) ==
    LET Other(e) == e.key # key IN SelectSeq(store, Other)

isExpired(entry, now) == Truthy(entry.expiry) /\ now > entry.expiry.v

createEntry(value, ttl, now) ==
    [value |-> value,
     createdAt |-> now,
     expiry |-> IF Truthy(ttl) THEN NV(now + (ttl.v * 1000)) ELSE Undefined]

\* a set that keeps the expiry of the entry it overwrites when given no ttl
DbSetMerging(store, key, value, ttl, now) ==
    [store |-> MapSet(store, key,
                      IF MapHas(store, key) /\ ~Truthy(ttl)
                      THEN [createEntry(value, ttl, now)
                                EXCEPT !.expiry = MapGet(store, key).expiry]
                      ELSE createEntry(value, ttl, now)),
     result |-> TRUE]
\* a delete that reports success whatever it found
DbDeleteAlwaysTrue(store, key) == [store |-> MapDelete(store, key), result |-> TRUE]
\* an expire that does not look at whether the entry has expired
DbExpireAlways(store, key, seconds, now) ==
    IF ~MapHas(store, key) THEN [store |-> store, result |-> FALSE]
    ELSE [store |-> MapSet(store, key,
                           [MapGet(store, key) EXCEPT !.expiry = NV(now + (seconds * 1000))]),
          result |-> TRUE]

\* a keys that lists the live keys and leaves the expired entries in the map
DbKeysLazy(store, pattern, now) ==
    LET Live(e) == ~isExpired(e, now)
        swept == SelectSeq(store, Live)
    IN  [store |-> store, result |-> [i \in 1..Len(swept) |-> swept[i].key]]
\* a sweep that empties the map
DbCleanupAll(store, now) == [store |-> <<>>, result |-> Len(store)]

\* Every operation yields the store it leaves and its result.
DbSet(store, key, value, ttl, now) ==
    [store |-> MapSet(store, key, createEntry(value, ttl, now)), result |-> TRUE]

DbGet(store, key, now) ==
    IF ~MapHas(store, key) THEN [store |-> store, result |-> Null]
    ELSE IF isExpired(MapGet(store, key), now)
    THEN [store |-> MapDelete(store, key), result |-> Null]
    ELSE [store |-> store, result |-> SV(MapGet(store, key).value)]

DbDelete(store, key) ==
    [store |-> MapDelete(store, key), result |-> MapHas(store, key)]

DbExists(store, key, now) ==
    IF ~MapHas(store, key) THEN [store |-> store, result |-> FALSE]
    ELSE IF isExpired(MapGet(store, key), now)
    THEN [store |-> MapDelete(store, key), result |-> FALSE]
    ELSE [store |-> store, result |-> TRUE]

\* new RegExp('^' + pattern.replace(/\*/g, '.*').replace(/\?/g, '.') + '$'):
\* `*` any run, `?` and an unescaped `.` any one character but a line
\* terminator, any other character of the model's alphabet itself
RECURSIVE RegexTest(_, _)
RegexTest(pattern, key) ==
    IF Len(pattern) = 0 THEN Len(key) = 0
    ELSE IF pattern[1] = "*"
    THEN \E n \in 0..Len(key) :
            /\ \A i \in 1..n : key[i] \notin {CR, LF}
            /\ RegexTest(Tail(pattern), substring(key, n))
    ELSE IF pattern[1] \in {"?", "."}
    THEN Len(key) > 0 /\ key[1] \notin {CR, LF} /\ RegexTest(Tail(pattern), Tail(key))
    ELSE Len(key) > 0 /\ key[1] = pattern[1] /\ RegexTest(Tail(pattern), Tail(key))

DbKeys(store, pattern, now) ==
    LET Live(e) == ~isExpired(e, now)
        swept == SelectSeq(store, Live)
        validKeys == [i \in 1..Len(swept) |-> swept[i].key]
        Matches(k) == RegexTest(pattern, k)
    IN  [store |-> swept,
         result |-> IF Len(pattern) = 0 \/ pattern = <<"*">> THEN validKeys
                    ELSE SelectSeq(validKeys, Matches)]

DbClear(store) == [store |-> <<>>, result |-> TRUE]

DbExpire(store, key, seconds, now) ==
    IF ~MapHas(store, key) \/ isExpired(MapGet(store, key), now)
    THEN [store |-> store, result |-> FALSE]
    ELSE [store |-> MapSet(store, key,
                           [MapGet(store, key) EXCEPT !.expiry = NV(now + (seconds * 1000))]),
          result |-> TRUE]

\* Math.ceil(x / 1000)
CeilDiv1000(x) == IF x % 1000 = 0 THEN x \div 1000 ELSE (x \div 1000) + 1

DbTtl(store, key, now) ==
    IF \/ ~MapHas(store, key)
       \/ isExpired(MapGet(store, key), now)
       \/ ~Truthy(MapGet(store, key).expiry)
    THEN -1
    ELSE LET left == CeilDiv1000(MapGet(store, key).expiry.v - now)
         IN  IF left > 0 THEN left ELSE 0

DbCleanupExpired(store, now) ==
    LET Live(e) == ~isExpired(e, now)
        swept == SelectSeq(store, Live)
    IN  [store |-> swept, result |-> Len(store) - Len(swept)]

(***************************************************************************)
(* Append-only persister (store/persistence.ts)                            *)
(*                                                                         *)
(* closed: the persister's flag; ended: ws.end() has been called; buf: the *)
(* data handed to ws.write() and not yet on disk; writeErrors: the stream  *)
(* errors retained by the 'error' handler.                                 *)
(***************************************************************************)
NewPersister == [closed |-> FALSE, ended |-> FALSE, buf |-> <<>>, writeErrors |-> 0]

\* a stream that puts a new write ahead of the pending ones
WsWriteAhead(p, data) ==
    IF p.ended THEN [p EXCEPT !.writeErrors = @ + 1]
    ELSE [p EXCEPT !.buf = <<data>> \o @]

\* ws.write(data): queued behind the earlier writes; after end() the stream
\* refuses it with an 'error' event and the data is dropped
WsWrite(p, data) ==
    IF p.ended THEN [p EXCEPT !.writeErrors = @ + 1]
    ELSE [p EXCEPT !.buf = Append(@, data)]

\* Object.create(null): String(data) in serialize throws a TypeError
Bare == [t |-> "bare", v |-> <<>>]
serializeThrows(data) ==
    \/ data.t = "bare"
    \/ data.t = "array" /\ \E i \in 1..Len(data.v) : data.v[i].t = "bare"

\* a logCommand that writes whether or not the persister is closed
PersisterLogCommandAfterClose(p, command) ==
    IF command.t # "array" \/ Len(command.v) = 0 THEN p
    ELSE IF serializeThrows(command) THEN p
    ELSE WsWrite(p, serialize(command))

PersisterLogCommand(p, command) ==
    IF p.closed \/ command.t # "array" \/ Len(command.v) = 0 THEN p
    ELSE WsWrite(p, serialize(command))

(***************************************************************************)
(* Command parser / dispatcher (memserv/index.ts)                          *)
(*                                                                         *)
(* The engine m is [store, isRestoring, hasPersister, persister].          *)
(***************************************************************************)
S_SET == <<"S", "E", "T">>
S_DEL == <<"D", "E", "L">>
S_CLEAR == <<"C", "L", "E", "A", "R">>
S_EXPIRE == <<"E", "X", "P", "I", "R", "E">>
S_EX == <<"E", "X">>

\* A command structure; the fields a kind does not use keep these defaults.
Command(kind) ==
    [command |-> kind, key |-> <<>>, value |-> <<>>, ttl |-> Undefined,
     seconds |-> 0, text |-> <<>>, pattern |-> <<>>, section |-> Undefined]

\* a logCommand that does not look at whether there is a persister
logCommandUnguarded(m, command, skipDuringRestore) ==
    IF ~skipDuringRestore
    THEN [m EXCEPT !.persister = PersisterLogCommand(@, command)]
    ELSE m

\* a logCommand that does not look at skipDuringRestore
logCommandAlways(m, command, skipDuringRestore) ==
    IF m.hasPersister
    THEN [m EXCEPT !.persister = PersisterLogCommand(@, command)]
    ELSE m

\* MemServLight.logCommand
logCommand(m, command, skipDuringRestore) ==
    IF m.hasPersister /\ ~skipDuringRestore
    THEN [m EXCEPT !.persister = PersisterLogCommand(@, command)]
    ELSE m

executeSet(m, params, now) ==
    [m |-> logCommand([m EXCEPT !.store =
                            DbSet(m.store, params.key, params.value, params.ttl,
                                  now).store],
                      AV(<<SV(S_SET), SV(params.key), SV(params.value)>>
                         \o (IF Truthy(params.ttl)
                             THEN <<SV(S_EX), SV(String(params.ttl))>> ELSE <<>>)),
                      m.isRestoring),
     reply |-> OK]

\* In the handlers below db is what the Database call left and returned.
GetReply(m, db) ==
    [m |-> [m EXCEPT !.store = db.store],
     reply |-> IF Truthy(db.result) THEN serialize(db.result) ELSE NULL]
executeGet(m, params, now) == GetReply(m, DbGet(m.store, params.key, now))

DelReply(m, params, db) ==
    [m |-> IF db.result
           THEN logCommand([m EXCEPT !.store = db.store],
                           AV(<<SV(S_DEL), SV(params.key)>>), m.isRestoring)
           ELSE [m EXCEPT !.store = db.store],
     reply |-> IF db.result THEN ONE ELSE ZERO]
\* a DEL that logs whether or not an entry was removed
executeDelLogged(m, params) ==
    [m |-> logCommand([m EXCEPT !.store = DbDelete(m.store, params.key).store],
                      AV(<<SV(S_DEL), SV(params.key)>>), m.isRestoring),
     reply |-> IF DbDelete(m.store, params.key).result THEN ONE ELSE ZERO]
executeDel(m, params) == DelReply(m, params, DbDelete(m.store, params.key))

ExistsReply(m, db) ==
    [m |-> [m EXCEPT !.store = db.store],
     reply |-> IF db.result THEN ONE ELSE ZERO]
executeExists(m, params, now) == ExistsReply(m, DbExists(m.store, params.key, now))

KeysReply(m, db) ==
    [m |-> [m EXCEPT !.store = db.store],
     reply |-> serialize(AV([i \in 1..Len(db.result) |-> SV(db.result[i])]))]
executeKeys(m, params, now) ==
    KeysReply(m, DbKeys(m.store,
                        IF Len(params.pattern) > 0 THEN params.pattern ELSE <<"*">>,
                        now))

executeClear(m) ==
    [m |-> logCommand([m EXCEPT !.store = DbClear(m.store).store],
                      AV(<<SV(S_CLEAR)>>), m.isRestoring),
     reply |-> OK]

ExpireReply(m, params, db) ==
    [m |-> IF db.result
           THEN logCommand([m EXCEPT !.store = db.store],
                           AV(<<SV(S_EXPIRE), SV(params.key),
                                SV(IntToStr(params.seconds))>>),
                           m.isRestoring)
           ELSE [m EXCEPT !.store = db.store],
     reply |-> IF db.result THEN ONE ELSE ZERO]
executeExpire(m, params, now) ==
    ExpireReply(m, params, DbExpire(m.store, params.key, params.seconds, now))

executeTtl(m, params, now) ==
    [m |-> m, reply |-> serialize(NV(DbTtl(m.store, params.key, now)))]

\* info(): the reply is a status text that depends on nothing in the engine;
\* its one-second cache is left out
InfoReply == serialize(SV(<<"m", "e", "m", "s", "e", "r", "v">>))

\* MemServLight.execute: the engine it leaves and the reply
execute(m, c, now) ==
    CASE c.command = "ping" -> [m |-> m, reply |-> PONG]
      [] c.command = "echo" -> [m |-> m, reply |-> serialize(SV(c.text))]
      [] c.command = "set" -> executeSet(m, c, now)
      [] c.command = "get" -> executeGet(m, c, now)
      [] c.command = "del" -> executeDel(m, c)
      [] c.command = "exists" -> executeExists(m, c, now)
      [] c.command = "keys" -> executeKeys(m, c, now)
      [] c.command = "clear" -> executeClear(m)
      [] c.command = "expire" -> executeExpire(m, c, now)
      [] c.command = "ttl" -> executeTtl(m, c, now)
      [] c.command = "info" -> [m |-> m, reply |-> InfoReply]
      [] OTHER -> [m |-> m,
                   reply |-> formatError(SV(<<"U", "n", "k", "n", "o", "w", "n", " ",
                                              "c", "o", "m", "m", "a", "n", "d">>))]

\* What parse yields: a command, null, or a raised exception
ParseThrown == [r |-> "throw", cmd |-> Command("none")]
ParseNull == [r |-> "null", cmd |-> Command("none")]
ParseCmd(c) == [r |-> "cmd", cmd |-> c]

\* parsed[i] of a JavaScript array, 0-based; undefined past the end
At(parsed, i) == IF i < Len(parsed) THEN parsed[i + 1] ELSE Undefined

\* SET key value... [EX ttl]: t is parseInt of the last argument
SetCommand(parsed, n, withTtl, t) ==
    ParseCmd([Command("set") EXCEPT
                 !.key = String(At(parsed, 1)),
                 !.value = join([i \in 1..((IF withTtl THEN n - 2 ELSE n) - 2) |->
                                   String(At(parsed, i + 1))],
                                <<" ">>),
                 !.ttl = IF withTtl THEN t ELSE Undefined])
SetWithTtl(parsed, n, t) ==
    SetCommand(parsed, n,
               n >= 4 /\ String(At(parsed, n - 2)) = S_EX /\ t.t # "NaN", t)
parseSet(parsed) ==
    IF Len(parsed) < 3 THEN ParseNull
    ELSE SetWithTtl(parsed, Len(parsed),
                    parseInt(String(At(parsed, Len(parsed) - 1))))

ExpireCommand(parsed, seconds) ==
    IF Len(parsed) < 3 \/ seconds.t = "NaN" THEN ParseNull
    ELSE ParseCmd([Command("expire") EXCEPT
                      !.key = String(At(parsed, 1)), !.seconds = seconds.v])
parseExpire(parsed) == ExpireCommand(parsed, parseInt(String(At(parsed, 2))))

\* the switch on the lower-cased command name
ParseNamed(parsed, cmd) ==
    CASE cmd = <<"p", "i", "n", "g">> -> ParseCmd(Command("ping"))
      [] cmd = <<"c", "l", "e", "a", "r">> -> ParseCmd(Command("clear"))
      [] cmd = <<"i", "n", "f", "o">> ->
            ParseCmd([Command("info") EXCEPT
                        !.section = IF Truthy(At(parsed, 1))
                                    THEN SV(String(At(parsed, 1))) ELSE Undefined])
      [] cmd = <<"k", "e", "y", "s">> ->
            ParseCmd([Command("keys") EXCEPT
                        !.pattern = IF Truthy(At(parsed, 1))
                                    THEN String(At(parsed, 1)) ELSE <<"*">>])
      [] cmd = <<"e", "c", "h", "o">> ->
            ParseCmd([Command("echo") EXCEPT
                        !.text = join([i \in 1..(Len(parsed) - 1) |->
                                          String(parsed[i + 1])], <<" ">>)])
      [] OTHER ->
            IF Len(parsed) < 2 THEN ParseNull
            ELSE CASE cmd = <<"g", "e", "t">> ->
                        ParseCmd([Command("get") EXCEPT !.key = String(At(parsed, 1))])
                   [] cmd = <<"d", "e", "l">> ->
                        ParseCmd([Command("del") EXCEPT !.key = String(At(parsed, 1))])
                   [] cmd = <<"e", "x", "i", "s", "t", "s">> ->
                        ParseCmd([Command("exists") EXCEPT
                                    !.key = String(At(parsed, 1))])
                   [] cmd = <<"t", "t", "l">> ->
                        ParseCmd([Command("ttl") EXCEPT !.key = String(At(parsed, 1))])
                   [] cmd = <<"s", "e", "t">> -> parseSet(parsed)
                   [] cmd = <<"e", "x", "p", "i", "r", "e">> -> parseExpire(parsed)
                   [] OTHER -> ParseNull

\* what follows deserialize(request)
ParseDecoded(d) ==
    IF ~d.ok THEN ParseThrown
    ELSE IF d.value.t # "array" \/ Len(d.value.v) = 0 THEN ParseNull
    ELSE ParseNamed(d.value.v, toLowerCase(String(d.value.v[1])))

\* MemServLight.parse
parse(request) == ParseDecoded(deserialize(request))

(***************************************************************************)
(* Replay (store/persistence.ts, restoreFromFile)                          *)
(*                                                                         *)
(* A replay state rs is [m, buffer, executed, failed, again, fault]: the    *)
(* engine, the text buffer, the commands handed to execute so far, whether *)
(* an execution failure ended the replay, whether the loop over the buffer *)
(* goes round again, and how the engine's execute fails, if it does.       *)
(***************************************************************************)
maxBufferSize == 10 * 1024 * 1024
ERROR_MARK == <<"-", "E", "R", "R", "O", "R">>

setRestorationMode(m, enabled) == [m EXCEPT !.isRestoring = enabled]

\* the buffer after a command that parsed and executed: the command's own
\* re-encoding tells how many characters it took
ConsumeParsed(buffer, arrayStart, parsed) ==
    IF parsed.ok /\ parsed.value.t = "array"
    THEN substring(buffer, arrayStart + Len(serialize(parsed.value)))
    ELSE substring(buffer, arrayStart + 1)
ConsumeCommand(buffer, arrayStart) ==
    ConsumeParsed(buffer, arrayStart, deserialize(substring(buffer, arrayStart)))

\* The engine restoreFromFile is given is the MemServLight, or a stand-in
\* whose execute fails on its at-th call: it raises, or replies with an error.
NoFault == [kind |-> "none", at |-> 0]
Executed(e) == [m |-> e.m, reply |-> e.reply, raised |-> FALSE]
EngineExecute(rs, cmd, now) ==
    IF rs.fault.kind # "none" /\ Len(rs.executed) + 1 = rs.fault.at
    THEN [m |-> rs.m,
          reply |-> IF rs.fault.kind = "reply" THEN formatError(Undefined) ELSE <<>>,
          raised |-> rs.fault.kind = "raise"]
    ELSE Executed(execute(rs.m, cmd, now))

\* an execution stage that goes on to the next record after a failure
AfterExecuteLenient(rs, now, arrayStart, cmd, done) ==
    [rs EXCEPT !.m = done.m,
               !.executed = Append(@, cmd),
               !.buffer = ConsumeCommand(rs.buffer, arrayStart),
               !.again = TRUE]

\* a skip that leaves the corrupted text in the buffer
SkipCorruptedInPlace(rs, now, nextArrayStart) ==
    IF nextArrayStart # -1 THEN [rs EXCEPT !.again = TRUE] ELSE rs

\* One iteration of the `while (true)` loop over the buffer, in its three
\* stages: the array start is looked for, the text from it is parsed, the
\* command is executed. again says that the loop goes round once more.
AfterExecute(rs, now, arrayStart, cmd, done) ==
    IF done.raised \/ startsWith(done.reply, ERROR_MARK)
    THEN [rs EXCEPT !.m = done.m,
                    !.executed = Append(@, cmd),
                    !.failed = TRUE]
    ELSE [rs EXCEPT !.m = done.m,
                    !.executed = Append(@, cmd),
                    !.buffer = ConsumeCommand(rs.buffer, arrayStart),
                    !.again = TRUE]

SkipCorrupted(rs, now, nextArrayStart) ==
    IF nextArrayStart # -1
    THEN [rs EXCEPT !.buffer = substring(rs.buffer, nextArrayStart), !.again = TRUE]
    ELSE rs

AfterParse(rs, now, arrayStart, command) ==
    IF command.r = "throw"
    THEN SkipCorrupted(rs, now, indexOf(rs.buffer, <<"*">>, arrayStart + 1))
    ELSE IF command.r = "null" THEN rs
    ELSE AfterExecute(rs, now, arrayStart, command.cmd,
                      EngineExecute(rs, command.cmd, now))

AtArrayStart(rs, now, arrayStart) ==
    IF arrayStart = -1 THEN rs
    ELSE AfterParse(rs, now, arrayStart, parse(substring(rs.buffer, arrayStart)))

Iterate(rs, now) ==
    AtArrayStart([rs EXCEPT !.again = FALSE], now, indexOf(rs.buffer, <<"*">>, 0))

\* the loop, run until it breaks or returns
RECURSIVE ProcessBuffer(_, _)
Continue(rs, now) == IF rs.again THEN ProcessBuffer(rs, now) ELSE rs
ProcessBuffer(rs, now) == Continue(Iterate(rs, now), now)

\* buffer += chunk, with the size limit
LimitBuffer(b, lastArrayStart) ==
    IF lastArrayStart > 0 THEN substring(b, lastArrayStart)
    ELSE substring(b, Len(b) - 1024)
AddChunk(buffer, chunk) ==
    IF Len(buffer) + Len(chunk) > maxBufferSize
    THEN LimitBuffer(buffer \o chunk, lastIndexOf(buffer \o chunk, <<"*">>))
    ELSE buffer \o chunk

\* the `for await` loop over the chunks of the read stream
RECURSIVE ReadChunks(_, _, _)
ReadChunks(rs, chunks, now) ==
    IF rs.failed \/ Len(chunks) = 0 THEN rs
    ELSE ReadChunks(ProcessBuffer([rs EXCEPT !.buffer = AddChunk(@, chunks[1])], now),
                    Tail(chunks), now)

\* a return that leaves the engine in restoration mode
RestoredInMode(rs) ==
    [m |-> rs.m, result |-> ~rs.failed, executed |-> rs.executed, buffer |-> rs.buffer]

\* what restoreFromFile reports once the stream has ended or an execution
\* has failed; the `finally` leaves restoration mode
Restored(rs) ==
    [m |-> setRestorationMode(rs.m, FALSE),
     result |-> ~rs.failed,
     executed |-> rs.executed,
     buffer |-> rs.buffer]

\* restoreFromFile: the engine it leaves, its result, and the commands it
\* executed. `exists` is fs.existsSync(filename); `chunks` is how the read
\* stream delivers the file's content.
RestoreStart(m, fault) ==
    [m |-> setRestorationMode(m, TRUE), buffer |-> <<>>, executed |-> <<>>,
     failed |-> FALSE, again |-> FALSE, fault |-> fault]
restoreFromFile(m, exists, chunks, now) ==
    IF ~exists THEN [m |-> m, result |-> TRUE, executed |-> <<>>, buffer |-> <<>>]
    ELSE Restored(ReadChunks(RestoreStart(m, NoFault), chunks, now))

\* The ways a read stream may deliver `file`: whole, or cut once
ChunkingsOf(file) ==
    {IF Len(file) = 0 THEN <<>> ELSE <<file>>}
    \cup {<<SubSeq(file, 1, cut), SubSeq(file, cut + 1, Len(file))>> :
            cut \in 1..(Len(file) - 1)}

(***************************************************************************)
(* AsyncLock (store/database.ts)                                           *)
(*                                                                         *)
(* The lock is [locked, waitQueue]; a queued resolve callback is named by  *)
(* the caller whose acquire() made it.                                     *)
(***************************************************************************)
NewAsyncLock == [locked |-> FALSE, waitQueue |-> <<>>]

\* acquire(): granted says whether the returned promise is already resolved
acquire(l, c) ==
    IF ~l.locked
    THEN [lock |-> [l EXCEPT !.locked = TRUE], granted |-> TRUE]
    ELSE [lock |-> [l EXCEPT !.waitQueue = Append(@, c)], granted |-> FALSE]

\* a release that frees the lock even when it wakes a waiter
releaseUnlocking(l) ==
    IF ~l.locked THEN [lock |-> l, thrown |-> TRUE, next |-> {}]
    ELSE IF Len(l.waitQueue) > 0
    THEN [lock |-> [l EXCEPT !.waitQueue = Tail(@), !.locked = FALSE],
          thrown |-> FALSE, next |-> {Head(l.waitQueue)}]
    ELSE [lock |-> [l EXCEPT !.locked = FALSE], thrown |-> FALSE, next |-> {}]

\* a release that wakes the waiter that came last
releaseNewest(l) ==
    IF ~l.locked THEN [lock |-> l, thrown |-> TRUE, next |-> {}]
    ELSE IF Len(l.waitQueue) > 0
    THEN [lock |-> [l EXCEPT !.waitQueue = SubSeq(@, 1, Len(@) - 1)],
          thrown |-> FALSE, next |-> {l.waitQueue[Len(l.waitQueue)]}]
    ELSE [lock |-> [l EXCEPT !.locked = FALSE], thrown |-> FALSE, next |-> {}]

\* a release that accepts a lock that is not held
releaseLenient(l) ==
    IF Len(l.waitQueue) > 0
    THEN [lock |-> [l EXCEPT !.waitQueue = Tail(@)],
          thrown |-> FALSE, next |-> {Head(l.waitQueue)}]
    ELSE [lock |-> [l EXCEPT !.locked = FALSE], thrown |-> FALSE, next |-> {}]

\* a release that shifts the head waiter off the queue and does not call it
releaseForgetting(l) ==
    IF ~l.locked THEN [lock |-> l, thrown |-> TRUE, next |-> {}]
    ELSE IF Len(l.waitQueue) > 0
    THEN [lock |-> [l EXCEPT !.waitQueue = Tail(@)], thrown |-> FALSE, next |-> {}]
    ELSE [lock |-> [l EXCEPT !.locked = FALSE], thrown |-> FALSE, next |-> {}]

\* release(): thrown is the AsyncLockError; next holds the waiter whose resolve
\* callback was shifted off the queue and called, the lock staying held for it
release(l) ==
    IF ~l.locked THEN [lock |-> l, thrown |-> TRUE, next |-> {}]
    ELSE IF Len(l.waitQueue) > 0
    THEN [lock |-> [l EXCEPT !.waitQueue = Tail(@)],
          thrown |-> FALSE, next |-> {Head(l.waitQueue)}]
    ELSE [lock |-> [l EXCEPT !.locked = FALSE], thrown |-> FALSE, next |-> {}]

(***************************************************************************)
(* The server process (server.ts): boot, serve, shut down, start again     *)
(***************************************************************************)
MaxCmds == 2
MaxTicks == 2
MaxConns == 1
MaxGenerations == 2
Epoch == 100000
TickMs == 1000

VARIABLES
    memserv,      \* the MemServLight engine: store, isRestoring, persister
    file,         \* the content of the append-only file on disk
    now,          \* Date.now()
    phase,        \* "boot", "serving", "flushing", "closing", "exited"; "db" when
                  \* the Database is used on its own
    openConns,    \* connections currently open
    acked,        \* the mutations applied and answered with success, in order
    fileAtBoot,   \* the file's content when this process started
    prev,         \* the store and the answered mutations of the previous process
                  \* when it exited, and the time of its exit
    generation,   \* which process this is
    nCmds,        \* requests handled so far
    ticks,        \* clock steps so far
    restored,     \* what the last restoreFromFile did
    log,          \* how the file restoreFromFile is given was made up
    lastSet,      \* per key, the latest set(key, value, ttl) with a ttl, if no
                  \* other write to the key followed
    lock,         \* an AsyncLock: locked, waitQueue
    callers,      \* per withLock caller: where it stands and what it holds
    counter,      \* the counter the callers' functions read and write
    history,      \* the order of the acquire() calls and of the entries
    persisters,   \* the AppendOnlyPersisters made on one path, oldest first
    finished,     \* the persisters whose stream has emitted 'finish'
    calls,        \* what was asked of the persisters and how it was answered
    replay,       \* a restoreFromFile call followed iteration by iteration
    dbCall,       \* the latest call of a Database method: its arguments,
                  \* how it found the key's entry, and what it returned
    applied       \* a function of the parser or the codec applied to an input:
                  \* the input, its wire text, and what the function gave

lockVars == <<lock, callers, counter, history>>
persisterVars == <<persisters, finished, calls>>
replayVars == <<replay>>
dbVars == <<dbCall>>
appliedVars == <<applied>>
vars == <<memserv, file, now, phase, openConns, acked, fileAtBoot, prev,
          generation, nCmds, ticks, restored, log, lastSet, lockVars,
          persisterVars, replayVars, dbVars, appliedVars>>

\* no withLock caller and no persister of its own
NoHistory == [arrived |-> <<>>, entered |-> <<>>, peak |-> 0, strays |-> 0,
              strayErrors |-> 0]
NoCalls == [n |-> 0, logged |-> <<>>, ignored |-> 0, raised |-> 0, flushes |-> <<>>]
LockUnused ==
    /\ lock = NewAsyncLock
    /\ callers = <<>>
    /\ counter = 0
    /\ history = NoHistory
PersistersUnused ==
    /\ persisters = <<>>
    /\ finished = {}
    /\ calls = NoCalls

\* new MemServLight() followed by enablePersistence(AOF_FILE)
enablePersistence(m) == [m EXCEPT !.hasPersister = TRUE, !.persister = NewPersister]
NewMemServ == [store |-> <<>>, isRestoring |-> FALSE, hasPersister |-> FALSE,
               persister |-> NewPersister]

\* no restoreFromFile call followed on its own
NoReplay == [stage |-> "unused", rs |-> RestoreStart(NewMemServ, NoFault),
             chunks |-> <<>>, nChunks |-> 0, iterations |-> 0, lastLen |-> 0,
             result |-> TRUE, path |-> "none"]
ReplayUnused == replay = NoReplay

\* no Database method called on its own
DbCallOf(op) ==
    [op |-> op, key |-> <<>>, value |-> <<>>, ttl |-> Undefined,
     found |-> "absent", result |-> Undefined]
DbUnused == dbCall = DbCallOf("none")

\* no function applied on its own
NoApplied == [fn |-> "none", stage |-> "unused"]
AppliedUnused == applied = NoApplied

NotRestored == [done |-> FALSE, result |-> TRUE, executed |-> <<>>, store |-> <<>>,
                chunks |-> 0]
NoPrev == [store |-> <<>>, acked |-> <<>>, at |-> 0]
NoLog == [kind |-> "none", expected |-> <<>>]

Keys == {<<"a">>, <<"b">>}
NoSet == [k \in Keys |-> [set |-> FALSE, at |-> 0, ttl |-> 0]]

\* The argument lists of the commands that can change the store
MutatingArgs ==
    {<<S_SET, <<"a">>, <<"1">>>>,
     <<S_SET, <<"b">>, <<"2">>>>,
     <<S_SET, <<"a">>, <<"1">>, S_EX, <<"1">>>>,
     <<S_DEL, <<"a">>>>,
     <<S_CLEAR>>,
     <<S_EXPIRE, <<"a">>, <<"1">>>>}

\* The argument lists clients send; GET without a key is not a command
ClientArgs ==
    MutatingArgs
    \cup {<<<<"G", "E", "T">>, <<"a">>>>,
          <<<<"G", "E", "T">>>>,
          <<<<"E", "X", "I", "S", "T", "S">>, <<"a">>>>,
          <<<<"K", "E", "Y", "S">>>>,
          <<<<"T", "T", "L">>, <<"a">>>>,
          <<<<"P", "I", "N", "G">>>>,
          <<<<"E", "C", "H", "O">>, <<"h", "i">>>>}

WireArray(args) == AV([i \in 1..Len(args) |-> SV(args[i])])
Requests == {serialize(WireArray(args)) : args \in ClientArgs}
MutatingRequests == {serialize(WireArray(args)) : args \in MutatingArgs}

Init ==
    /\ memserv = enablePersistence(NewMemServ)
    /\ file = <<>>
    /\ now = Epoch
    /\ phase = "boot"
    /\ openConns = 0
    /\ acked = <<>>
    /\ fileAtBoot = <<>>
    /\ prev = NoPrev
    /\ generation = 1
    /\ nCmds = 0
    /\ ticks = 0
    /\ restored = NotRestored
    /\ log = NoLog
    /\ lastSet = NoSet
    /\ LockUnused
    /\ PersistersUnused
    /\ ReplayUnused
    /\ DbUnused
    /\ AppliedUnused

\* initializePersistence: restoreFromPersistence(AOF_FILE), awaited before the
\* server listens. The append stream creates the file when it opens, which
\* may or may not have happened when existsSync looks.
BootRestored(r, nChunks) ==
    /\ memserv' = r.m
    /\ restored' = [done |-> TRUE, result |-> r.result, executed |-> r.executed,
                    store |-> r.m.store, chunks |-> nChunks]
Boot ==
    /\ phase = "boot"
    /\ \E exists \in (IF Len(file) = 0 THEN BOOLEAN ELSE {TRUE}) :
       \E chunks \in ChunkingsOf(file) :
          BootRestored(restoreFromFile(memserv, exists, chunks, now), Len(chunks))
    /\ phase' = "serving"
    /\ UNCHANGED <<lockVars, persisterVars, replayVars, dbVars, appliedVars>>
    /\ UNCHANGED <<file, now, openConns, acked, fileAtBoot, prev, generation,
                   nCmds, ticks, log, lastSet>>

\* net.createServer: a client connects; the server takes connections until
\* server.close()
Connect ==
    /\ phase \in {"serving", "flushing"}
    /\ openConns < MaxConns
    /\ openConns' = openConns + 1
    /\ UNCHANGED <<lockVars, persisterVars, replayVars, dbVars, appliedVars>>
    /\ UNCHANGED <<memserv, file, now, phase, acked, fileAtBoot, prev,
                   generation, nCmds, ticks, restored, log, lastSet>>

Disconnect ==
    /\ phase \in {"serving", "flushing", "closing"}
    /\ openConns > 0
    /\ openConns' = openConns - 1
    /\ UNCHANGED <<lockVars, persisterVars, replayVars, dbVars, appliedVars>>
    /\ UNCHANGED <<memserv, file, now, phase, acked, fileAtBoot, prev,
                   generation, nCmds, ticks, restored, log, lastSet>>

\* whether executing cmd on this store changes it and is answered with success
IsMutation(cmd, store, t) ==
    \/ cmd.command \in {"set", "clear"}
    \/ cmd.command = "del" /\ MapHas(store, cmd.key)
    \/ cmd.command = "expire" /\ MapHas(store, cmd.key)
                              /\ ~isExpired(MapGet(store, cmd.key), t)

\* connection.on("data"): parse, execute, write the reply. execute has no
\* suspension point and the reply follows in the same microtask run, so the
\* handler is one step.
HandleParsed(command) ==
    IF command.r = "cmd"
    THEN /\ memserv' = execute(memserv, command.cmd, now).m
         /\ acked' = IF IsMutation(command.cmd, memserv.store, now)
                     THEN Append(acked, command.cmd) ELSE acked
    ELSE UNCHANGED <<memserv, acked>>
HandleData(request) ==
    /\ phase \in {"serving", "flushing", "closing"}
    /\ openConns > 0
    /\ nCmds < MaxCmds
    /\ HandleParsed(parse(request))
    /\ nCmds' = nCmds + 1
    /\ UNCHANGED <<lockVars, persisterVars, replayVars, dbVars, appliedVars>>
    /\ UNCHANGED <<file, now, phase, openConns, fileAtBoot, prev, generation,
                   ticks, restored, log, lastSet>>

\* the write stream puts its oldest pending write on disk
WsDrain ==
    /\ phase \in {"serving", "flushing", "closing"}
    /\ Len(memserv.persister.buf) > 0
    /\ file' = file \o Head(memserv.persister.buf)
    /\ memserv' = [memserv EXCEPT !.persister.buf = Tail(@)]
    /\ UNCHANGED <<lockVars, persisterVars, replayVars, dbVars, appliedVars>>
    /\ UNCHANGED <<now, phase, openConns, acked, fileAtBoot, prev, generation,
                   nCmds, ticks, restored, log, lastSet>>

Tick ==
    /\ phase \in {"serving", "flushing", "closing"}
    /\ ticks < MaxTicks
    /\ now' = now + TickMs
    /\ ticks' = ticks + 1
    /\ UNCHANGED <<lockVars, persisterVars, replayVars, dbVars, appliedVars>>
    /\ UNCHANGED <<memserv, file, phase, openConns, acked, fileAtBoot, prev,
                   generation, nCmds, restored, log, lastSet>>

\* AppendOnlyPersister.flush: ws.end('')
PersisterFlush(p) == IF p.closed THEN p ELSE [p EXCEPT !.ended = TRUE]

\* SIGINT / SIGTERM: shutdown() calls flushPersistence()
Shutdown ==
    /\ phase = "serving"
    /\ phase' = "flushing"
    /\ memserv' = IF memserv.hasPersister
                  THEN [memserv EXCEPT !.persister = PersisterFlush(@)]
                  ELSE memserv
    /\ UNCHANGED <<lockVars, persisterVars, replayVars, dbVars, appliedVars>>
    /\ UNCHANGED <<file, now, openConns, acked, fileAtBoot, prev, generation,
                   nCmds, ticks, restored, log, lastSet>>

\* the stream has finished: flush() resolves and shutdown() calls
\* server.close()
FlushDone ==
    /\ phase = "flushing"
    /\ Len(memserv.persister.buf) = 0
    /\ phase' = "closing"
    /\ UNCHANGED <<lockVars, persisterVars, replayVars, dbVars, appliedVars>>
    /\ UNCHANGED <<memserv, file, now, openConns, acked, fileAtBoot, prev,
                   generation, nCmds, ticks, restored, log, lastSet>>

\* the last connection is gone: the close callback calls process.exit(0)
Exit ==
    /\ phase = "closing"
    /\ openConns = 0
    /\ phase' = "exited"
    /\ prev' = [store |-> memserv.store, acked |-> acked, at |-> now]
    /\ UNCHANGED <<lockVars, persisterVars, replayVars, dbVars, appliedVars>>
    /\ UNCHANGED <<memserv, file, now, openConns, acked, fileAtBoot, generation,
                   nCmds, ticks, restored, log, lastSet>>

\* the server is started again on the same file
Restart ==
    /\ phase = "exited"
    /\ generation < MaxGenerations
    /\ generation' = generation + 1
    /\ memserv' = enablePersistence(NewMemServ)
    /\ phase' = "boot"
    /\ fileAtBoot' = file
    /\ acked' = <<>>
    /\ restored' = NotRestored
    /\ UNCHANGED <<lockVars, persisterVars, replayVars, dbVars, appliedVars>>
    /\ UNCHANGED <<file, now, openConns, prev, nCmds, ticks, log, lastSet>>

Next ==
    \/ Boot
    \/ Connect
    \/ Disconnect
    \/ \E request \in Requests : HandleData(request)
    \/ WsDrain
    \/ Tick
    \/ Shutdown
    \/ FlushDone
    \/ Exit

Spec == Init /\ [][Next]_vars

\* One process after another on the same file, with no time passing
NextReplay ==
    \/ Boot
    \/ Connect
    \/ Disconnect
    \/ \E request \in MutatingRequests : HandleData(request)
    \/ WsDrain
    \/ Shutdown
    \/ FlushDone
    \/ Exit
    \/ Restart

SpecReplay == Init /\ [][NextReplay]_vars

\* The same two processes with the clock running
NextExpiry ==
    \/ Boot
    \/ Connect
    \/ Disconnect
    \/ \E request \in MutatingRequests : HandleData(request)
    \/ WsDrain
    \/ Tick
    \/ Shutdown
    \/ FlushDone
    \/ Exit
    \/ Restart

SpecExpiry == Init /\ [][NextExpiry]_vars

(***************************************************************************)
(* restoreFromFile on the logs a disk can hold: whole records, a log cut   *)
(* off inside its last record, a damaged record between two whole ones     *)
(***************************************************************************)
MaxRecords == 2

RecordArgs ==
    {<<S_SET, <<"a">>, <<"1", "2">>>>,
     <<S_SET, <<"b">>, <<"2">>>>,
     <<S_DEL, <<"a">>>>}

Record(args) == serialize(WireArray(args))

\* Records that are not a command's encoding: a count that is no number, a
\* count larger and a count smaller than the elements that follow, an element
\* that does not decode, and a line that is no array at all
MalformedRecords ==
    {<<"*", "x">> \o CRLF \o <<"+", "S", "E", "T">> \o CRLF \o <<"+", "a">> \o CRLF
        \o <<"+", "9">> \o CRLF,
     <<"*", "4">> \o CRLF \o <<"+", "S", "E", "T">> \o CRLF \o <<"+", "a">> \o CRLF
        \o <<"+", "9">> \o CRLF,
     <<"*", "2">> \o CRLF \o <<"+", "S", "E", "T">> \o CRLF \o <<"+", "a">> \o CRLF
        \o <<"+", "9">> \o CRLF,
     <<"*", "3">> \o CRLF \o <<"+", "S", "E", "T">> \o CRLF \o <<"-", "a">> \o CRLF
        \o <<"+", "9">> \o CRLF,
     <<"+", "j", "u", "n", "k">> \o CRLF}

\* Records that decode to an array that is no command: a kind the parser
\* does not know, a SET without its value, and the empty array
NotCommandRecords ==
    {Record(<<<<"F", "O", "O">>>>),
     Record(<<S_SET, <<"a">>>>),
     serialize(AV(<<>>))}

RecordSeqs(n) == UNION {[1..k -> RecordArgs] : k \in 0..n}
TextOf(records) == Concat([i \in 1..Len(records) |-> Record(records[i])])
CommandsOf(records) == [i \in 1..Len(records) |-> parse(Record(records[i])).cmd]

ValidLogs ==
    {[kind |-> "valid", text |-> TextOf(records), expected |-> CommandsOf(records)] :
        records \in RecordSeqs(MaxRecords)}
TruncatedLogs ==
    UNION {{[kind |-> "truncated",
             text |-> TextOf(records) \o SubSeq(Record(last), 1, n),
             expected |-> CommandsOf(records)] :
               n \in 1..(Len(Record(last)) - 1)} :
           records \in RecordSeqs(MaxRecords - 1), last \in RecordArgs}
MalformedLogs ==
    {[kind |-> "malformed",
      text |-> Record(first) \o bad \o Record(second),
      expected |-> CommandsOf(<<first, second>>)] :
        first \in RecordArgs, bad \in MalformedRecords, second \in RecordArgs}
NotCommandLogs ==
    {[kind |-> "notcommand",
      text |-> Record(first) \o bad \o Record(second),
      expected |-> CommandsOf(<<first, second>>)] :
        first \in RecordArgs, bad \in NotCommandRecords, second \in RecordArgs}
RestoreLogs == ValidLogs \cup TruncatedLogs \cup MalformedLogs \cup NotCommandLogs

InitRestore ==
    /\ \E l \in RestoreLogs :
          /\ file = l.text
          /\ fileAtBoot = l.text
          /\ log = [kind |-> l.kind, expected |-> l.expected]
    /\ memserv = enablePersistence(NewMemServ)
    /\ now = Epoch
    /\ phase = "boot"
    /\ openConns = 0
    /\ acked = <<>>
    /\ prev = NoPrev
    /\ generation = 1
    /\ nCmds = 0
    /\ ticks = 0
    /\ restored = NotRestored
    /\ lastSet = NoSet
    /\ LockUnused
    /\ PersistersUnused
    /\ ReplayUnused
    /\ DbUnused
    /\ AppliedUnused

NextRestore == Boot

SpecRestore == InitRestore /\ [][NextRestore]_vars

(***************************************************************************)
(* restoreFromFile followed one loop iteration at a time                   *)
(* (store/persistence.ts), on the same generated logs. The engine is the   *)
(* MemServLight, or on the valid logs a stand-in whose execute fails.      *)
(***************************************************************************)
Faults == {[kind |-> k, at |-> n] : k \in {"reply", "raise"}, n \in 1..MaxRecords}
FaultsFor(l) == IF l.kind = "valid" THEN {NoFault} \cup Faults ELSE {NoFault}

\* restoreFromFile(filename, memserv) has been called: the engine is as the
\* caller left it, and the read stream will deliver these chunks
ReplayCalled(m, fault, chunks) ==
    [stage |-> "called",
     rs |-> [RestoreStart(m, fault) EXCEPT !.m = m],
     chunks |-> chunks, nChunks |-> Len(chunks),
     iterations |-> 0, lastLen |-> 0, result |-> TRUE, path |-> "none"]

InitReplayLoop ==
    /\ \E l \in RestoreLogs :
          /\ file = l.text
          /\ fileAtBoot = l.text
          /\ log = [kind |-> l.kind, expected |-> l.expected]
          /\ \E chunks \in ChunkingsOf(l.text), fault \in FaultsFor(l) :
                replay = ReplayCalled(enablePersistence(NewMemServ), fault, chunks)
    /\ memserv = enablePersistence(NewMemServ)
    /\ now = Epoch
    /\ phase = "replay"
    /\ openConns = 0
    /\ acked = <<>>
    /\ prev = NoPrev
    /\ generation = 1
    /\ nCmds = 0
    /\ ticks = 0
    /\ restored = NotRestored
    /\ lastSet = NoSet
    /\ LockUnused
    /\ PersistersUnused
    /\ DbUnused
    /\ AppliedUnused

\* restoreFromFile works on the engine the server shares with it
Engine(rs) == [rs EXCEPT !.m = memserv]

\* fs.existsSync(filename): without a file restoreFromFile returns true at
\* once; with one it enters restoration mode and opens the read stream. The
\* append stream creates the file when it opens, which may or may not have
\* happened when existsSync looks.
ReplayOpened(exists) ==
    /\ replay' = IF exists
                 THEN [replay EXCEPT !.rs.m = setRestorationMode(memserv, TRUE),
                                     !.stage = "reading"]
                 ELSE [replay EXCEPT !.rs.m = memserv,
                                     !.stage = "returned",
                                     !.result = TRUE,
                                     !.path = "missing"]
    /\ memserv' = IF exists THEN setRestorationMode(memserv, TRUE) ELSE memserv
ReplayOpen ==
    /\ replay.stage = "called"
    /\ \E exists \in (IF Len(file) = 0 THEN BOOLEAN ELSE {TRUE}) : ReplayOpened(exists)
    /\ UNCHANGED <<file, now, phase, openConns, acked, fileAtBoot, prev,
                   generation, nCmds, ticks, restored, log, lastSet>>
    /\ UNCHANGED <<lockVars, persisterVars, dbVars, appliedVars>>

\* `for await (const chunk of readStream)`: the next chunk joins the buffer
ReplayChunk ==
    /\ replay.stage = "reading"
    /\ Len(replay.chunks) > 0
    /\ replay' = [replay EXCEPT !.rs.m = memserv,
                                !.rs.buffer = AddChunk(@, Head(replay.chunks)),
                                !.chunks = Tail(@),
                                !.stage = "looping"]
    /\ UNCHANGED <<memserv, file, now, phase, openConns, acked, fileAtBoot, prev,
                   generation, nCmds, ticks, restored, log, lastSet>>
    /\ UNCHANGED <<lockVars, persisterVars, dbVars, appliedVars>>

\* the read stream emits 'error': the `for await` throws, the catch block
\* returns false and the `finally` leaves restoration mode
ReplayReadError ==
    /\ replay.stage = "reading"
    /\ replay' = [replay EXCEPT !.rs.m = Restored(Engine(replay.rs)).m,
                                !.stage = "returned",
                                !.result = FALSE,
                                !.path = "read error"]
    /\ memserv' = Restored(Engine(replay.rs)).m
    /\ UNCHANGED <<file, now, phase, openConns, acked, fileAtBoot, prev,
                   generation, nCmds, ticks, restored, log, lastSet>>
    /\ UNCHANGED <<lockVars, persisterVars, dbVars, appliedVars>>

\* one iteration of `while (true)`: it returns false, goes round again, or
\* breaks and waits for the next chunk
ReplayIterated(s) ==
    /\ replay' = [replay EXCEPT !.rs = IF s.failed
                                       THEN [s EXCEPT !.m = Restored(s).m]
                                       ELSE s,
                                !.iterations = @ + 1,
                                !.lastLen = Len(replay.rs.buffer),
                                !.result = ~s.failed,
                                !.path = IF s.failed THEN "execution" ELSE @,
                                !.stage = IF s.failed THEN "returned"
                                          ELSE IF s.again THEN "looping"
                                          ELSE "reading"]
    /\ memserv' = IF s.failed THEN Restored(s).m ELSE s.m
ReplayIterate ==
    /\ replay.stage = "looping"
    /\ ReplayIterated(Iterate(Engine(replay.rs), now))
    /\ UNCHANGED <<file, now, phase, openConns, acked, fileAtBoot, prev,
                   generation, nCmds, ticks, restored, log, lastSet>>
    /\ UNCHANGED <<lockVars, persisterVars, dbVars, appliedVars>>

\* the stream has ended: restoreFromFile leaves restoration mode and
\* returns true
ReplayEnd ==
    /\ replay.stage = "reading"
    /\ Len(replay.chunks) = 0
    /\ replay' = [replay EXCEPT !.rs.m = Restored(Engine(replay.rs)).m,
                                !.stage = "returned",
                                !.result = TRUE,
                                !.path = "end"]
    /\ memserv' = Restored(Engine(replay.rs)).m
    /\ UNCHANGED <<file, now, phase, openConns, acked, fileAtBoot, prev,
                   generation, nCmds, ticks, restored, log, lastSet>>
    /\ UNCHANGED <<lockVars, persisterVars, dbVars, appliedVars>>

NextReplayLoop ==
    \/ ReplayOpen
    \/ ReplayChunk
    \/ ReplayReadError
    \/ ReplayIterate
    \/ ReplayEnd

SpecReplayLoop == InitReplayLoop /\ [][NextReplayLoop]_vars

(***************************************************************************)
(* The server's start (server.ts, startServer): restoreFromPersistence is  *)
(* awaited, step by step as above, on a log of whole records that the read *)
(* stream delivers record by record; then the server is created and        *)
(* listens, and clients connect and send commands.                         *)
(***************************************************************************)
\* a server that listens without waiting for the restore
ListeningAtOnce == TRUE

\* `await initializePersistence()` has returned
Listening == replay.stage = "returned"

RecordChunks(records) == [i \in 1..Len(records) |-> Record(records[i])]

InitStartup ==
    /\ \E records \in RecordSeqs(MaxRecords) :
          /\ file = TextOf(records)
          /\ fileAtBoot = TextOf(records)
          /\ log = [kind |-> "valid", expected |-> CommandsOf(records)]
          /\ replay = ReplayCalled(enablePersistence(NewMemServ), NoFault,
                                   RecordChunks(records))
    /\ memserv = enablePersistence(NewMemServ)
    /\ now = Epoch
    /\ phase = "boot"
    /\ openConns = 0
    /\ acked = <<>>
    /\ prev = NoPrev
    /\ generation = 1
    /\ nCmds = 0
    /\ ticks = 0
    /\ restored = NotRestored
    /\ lastSet = NoSet
    /\ LockUnused
    /\ PersistersUnused
    /\ DbUnused
    /\ AppliedUnused

\* net.createServer(...) and server.listen(6379)
Listen ==
    /\ phase = "boot"
    /\ Listening
    /\ phase' = "serving"
    /\ UNCHANGED <<lockVars, persisterVars, replayVars, dbVars, appliedVars>>
    /\ UNCHANGED <<memserv, file, now, openConns, acked, fileAtBoot, prev,
                   generation, nCmds, ticks, restored, log, lastSet>>

NextStartup ==
    \/ ReplayOpen
    \/ ReplayChunk
    \/ ReplayReadError
    \/ ReplayIterate
    \/ ReplayEnd
    \/ Listen
    \/ Connect
    \/ Disconnect
    \/ \E request \in MutatingRequests : HandleData(request)
    \/ WsDrain

SpecStartup == InitStartup /\ [][NextStartup]_vars

(***************************************************************************)
(* The Database on its own (store/database.ts), with a clock               *)
(***************************************************************************)
MaxDbTicks == 2
DbTickMs == 600
\* the values set: "1", and the value `SET k EX 10` asks for, which is the
\* empty string
ValueOf(args) == parse(serialize(WireArray(args))).cmd.value
Values == {<<"1">>, ValueOf(<<S_SET, <<"k">>, S_EX, <<"1", "0">>>>)}
Ttls == {Undefined, NV(0), NV(1)}
Patterns == {<<"*">>, <<"a", "*">>, <<"?">>, <<".">>}

InitDb ==
    /\ memserv = NewMemServ
    /\ file = <<>>
    /\ now = Epoch
    /\ phase = "db"
    /\ openConns = 0
    /\ acked = <<>>
    /\ fileAtBoot = <<>>
    /\ prev = NoPrev
    /\ generation = 1
    /\ nCmds = 0
    /\ ticks = 0
    /\ restored = NotRestored
    /\ log = NoLog
    /\ lastSet = NoSet
    /\ LockUnused
    /\ PersistersUnused
    /\ ReplayUnused
    /\ DbUnused
    /\ AppliedUnused

\* how a call finds the entry of its key: absent, expired but still in the
\* map, live with an expiry ahead, or lasting without one
Found(store, key, at) ==
    IF ~MapHas(store, key) THEN "absent"
    ELSE IF isExpired(MapGet(store, key), at) THEN "expired"
    ELSE IF Truthy(MapGet(store, key).expiry) THEN "live"
    ELSE "lasting"

\* a call of a Database method: db is the store it leaves and its result,
\* which is a boolean, a number or a list of keys
Boolean(db) == [db EXCEPT !.result = BV(@)]
Number(db) == [db EXCEPT !.result = NV(@)]
Listed(db) == [db EXCEPT !.result = AV(@)]
DatabaseCalled(call, db) ==
    /\ memserv' = [memserv EXCEPT !.store = db.store]
    /\ dbCall' = [call EXCEPT !.found = Found(memserv.store, call.key, now),
                              !.result = db.result]

DatabaseSet(key, value, ttl) ==
    /\ DatabaseCalled([DbCallOf("set") EXCEPT !.key = key, !.value = value,
                                              !.ttl = ttl],
                      Boolean(DbSet(memserv.store, key, value, ttl, now)))
    /\ lastSet' = [lastSet EXCEPT ![key] =
                      IF ttl.t = "number"
                      THEN [set |-> TRUE, at |-> now, ttl |-> ttl.v]
                      ELSE [set |-> FALSE, at |-> 0, ttl |-> 0]]
    /\ UNCHANGED <<lockVars, persisterVars, replayVars, appliedVars>>
    /\ UNCHANGED <<file, now, phase, openConns, acked, fileAtBoot, prev, generation,
                   nCmds, ticks, restored, log>>

DatabaseGet(key) ==
    /\ DatabaseCalled([DbCallOf("get") EXCEPT !.key = key],
                      DbGet(memserv.store, key, now))
    /\ UNCHANGED <<lockVars, persisterVars, replayVars, appliedVars>>
    /\ UNCHANGED <<file, now, phase, openConns, acked, fileAtBoot, prev, generation,
                   nCmds, ticks, restored, log, lastSet>>

DatabaseExists(key) ==
    /\ DatabaseCalled([DbCallOf("exists") EXCEPT !.key = key],
                      Boolean(DbExists(memserv.store, key, now)))
    /\ UNCHANGED <<lockVars, persisterVars, replayVars, appliedVars>>
    /\ UNCHANGED <<file, now, phase, openConns, acked, fileAtBoot, prev, generation,
                   nCmds, ticks, restored, log, lastSet>>

DatabaseDelete(key) ==
    /\ DatabaseCalled([DbCallOf("delete") EXCEPT !.key = key],
                      Boolean(DbDelete(memserv.store, key)))
    /\ lastSet' = [lastSet EXCEPT ![key] = NoSet[key]]
    /\ UNCHANGED <<lockVars, persisterVars, replayVars, appliedVars>>
    /\ UNCHANGED <<file, now, phase, openConns, acked, fileAtBoot, prev, generation,
                   nCmds, ticks, restored, log>>

DatabaseExpire(key, seconds) ==
    /\ DatabaseCalled([DbCallOf("expire") EXCEPT !.key = key],
                      Boolean(DbExpire(memserv.store, key, seconds, now)))
    /\ lastSet' = IF DbExpire(memserv.store, key, seconds, now).result
                  THEN [lastSet EXCEPT ![key] = NoSet[key]] ELSE lastSet
    /\ UNCHANGED <<lockVars, persisterVars, replayVars, appliedVars>>
    /\ UNCHANGED <<file, now, phase, openConns, acked, fileAtBoot, prev, generation,
                   nCmds, ticks, restored, log>>

DatabaseKeys(pattern) ==
    /\ DatabaseCalled(DbCallOf("keys"),
                      Listed(DbKeys(memserv.store, pattern, now)))
    /\ UNCHANGED <<lockVars, persisterVars, replayVars, appliedVars>>
    /\ UNCHANGED <<file, now, phase, openConns, acked, fileAtBoot, prev, generation,
                   nCmds, ticks, restored, log, lastSet>>

DatabaseClear ==
    /\ DatabaseCalled(DbCallOf("clear"), Boolean(DbClear(memserv.store)))
    /\ lastSet' = NoSet
    /\ UNCHANGED <<lockVars, persisterVars, replayVars, appliedVars>>
    /\ UNCHANGED <<file, now, phase, openConns, acked, fileAtBoot, prev, generation,
                   nCmds, ticks, restored, log>>

DatabaseTtl(key) ==
    /\ DatabaseCalled([DbCallOf("ttl") EXCEPT !.key = key],
                      [store |-> memserv.store,
                       result |-> NV(DbTtl(memserv.store, key, now))])
    /\ UNCHANGED <<lockVars, persisterVars, replayVars, appliedVars>>
    /\ UNCHANGED <<file, now, phase, openConns, acked, fileAtBoot, prev, generation,
                   nCmds, ticks, restored, log, lastSet>>

DatabaseCleanupExpired ==
    /\ DatabaseCalled(DbCallOf("cleanupExpired"),
                      Number(DbCleanupExpired(memserv.store, now)))
    /\ UNCHANGED <<lockVars, persisterVars, replayVars, appliedVars>>
    /\ UNCHANGED <<file, now, phase, openConns, acked, fileAtBoot, prev, generation,
                   nCmds, ticks, restored, log, lastSet>>

DatabaseTick ==
    /\ ticks < MaxDbTicks
    /\ now' = now + DbTickMs
    /\ ticks' = ticks + 1
    /\ UNCHANGED <<lockVars, persisterVars, replayVars, dbVars, appliedVars>>
    /\ UNCHANGED <<memserv, file, phase, openConns, acked, fileAtBoot, prev,
                   generation, nCmds, restored, log, lastSet>>

NextDb ==
    \/ \E key \in Keys, value \in Values, ttl \in Ttls : DatabaseSet(key, value, ttl)
    \/ \E key \in Keys : DatabaseGet(key)
    \/ \E key \in Keys : DatabaseExists(key)
    \/ \E key \in Keys : DatabaseDelete(key)
    \/ \E key \in Keys : DatabaseExpire(key, 1)
    \/ \E pattern \in Patterns : DatabaseKeys(pattern)
    \/ DatabaseClear
    \/ \E key \in Keys : DatabaseTtl(key)
    \/ DatabaseCleanupExpired
    \/ DatabaseTick

SpecDb == InitDb /\ [][NextDb]_vars

(***************************************************************************)
(* withLock callers on one AsyncLock (store/database.ts,                   *)
(* store/database.test.ts): each caller's function reads the counter,      *)
(* suspends, then writes the counter, or throws before or after the        *)
(* suspension. A step is what one caller runs between two suspension       *)
(* points; the steps of different callers interleave in any order.         *)
(***************************************************************************)
MaxCallers == 3
MaxStrays == 1
CallerIds == 1..MaxCallers
Throws == {"no", "early", "late"}
AsyncLockErrorValue == 0 - 1

Pending == [state |-> "pending", value |-> 0]
Resolved(v) == [state |-> "resolved", value |-> v]
Rejected(e) == [state |-> "rejected", value |-> e]
IdleCaller == [pc |-> "idle", throws |-> "no", start |-> 0, fn |-> Pending,
               outcome |-> Pending, releases |-> 0]

\* everything but the lock and its callers stays as constructed
ServerUnused ==
    /\ memserv = NewMemServ
    /\ file = <<>>
    /\ now = Epoch
    /\ openConns = 0
    /\ acked = <<>>
    /\ fileAtBoot = <<>>
    /\ prev = NoPrev
    /\ generation = 1
    /\ nCmds = 0
    /\ ticks = 0
    /\ restored = NotRestored
    /\ log = NoLog
    /\ lastSet = NoSet
serverVars == <<memserv, file, now, phase, openConns, acked, fileAtBoot, prev,
                generation, nCmds, ticks, restored, log, lastSet>>

InitLock ==
    /\ ServerUnused
    /\ phase = "lock"
    /\ PersistersUnused
    /\ ReplayUnused
    /\ DbUnused
    /\ AppliedUnused
    /\ lock = NewAsyncLock
    /\ callers = [c \in CallerIds |-> IdleCaller]
    /\ counter = 0
    /\ history = NoHistory

\* the caller whose resolve callback release() called goes on after its await
Woken(cs, next) ==
    [c \in DOMAIN cs |-> IF c \in next THEN [cs[c] EXCEPT !.pc = "granted"] ELSE cs[c]]

Max(a, b) == IF a > b THEN a ELSE b

\* withLock(fn) up to `await this.acquire()`
WithLockAcquired(c, throws, a) ==
    /\ lock' = a.lock
    /\ callers' = [callers EXCEPT ![c].pc = IF a.granted THEN "granted" ELSE "waiting",
                                  ![c].throws = throws]
    /\ history' = [history EXCEPT !.arrived = Append(@, c),
                                  !.peak = Max(@, Len(a.lock.waitQueue))]
WithLockCall(c, throws) ==
    /\ callers[c].pc = "idle"
    /\ WithLockAcquired(c, throws, acquire(lock, c))
    /\ UNCHANGED <<counter, persisterVars, serverVars, replayVars, dbVars, appliedVars>>

\* after the await: `try { return await fn()`, and fn up to its own await:
\* `const current = counter`
FnStart(c) ==
    /\ callers[c].pc = "granted"
    /\ callers' = IF callers[c].throws = "early"
                  THEN [callers EXCEPT ![c].pc = "settled", ![c].fn = Rejected(c)]
                  ELSE [callers EXCEPT ![c].pc = "inside", ![c].start = counter]
    /\ history' = [history EXCEPT !.entered = Append(@, c)]
    /\ UNCHANGED <<lock, counter, persisterVars, serverVars, replayVars, dbVars, appliedVars>>

\* fn after its await: `counter = current + 1; return counter`
FnResume(c) ==
    /\ callers[c].pc = "inside"
    /\ IF callers[c].throws = "late"
       THEN /\ callers' = [callers EXCEPT ![c].pc = "settled", ![c].fn = Rejected(c)]
            /\ UNCHANGED counter
       ELSE /\ counter' = callers[c].start + 1
            /\ callers' = [callers EXCEPT ![c].pc = "settled",
                                          ![c].fn = Resolved(callers[c].start + 1)]
    /\ UNCHANGED <<lock, history, persisterVars, serverVars, replayVars, dbVars, appliedVars>>

\* a withLock that releases only when fn succeeded
withLockExitOnSuccess(l, fn) ==
    IF fn.state = "resolved" THEN release(l)
    ELSE [lock |-> l, thrown |-> FALSE, next |-> {}]

\* `finally { this.release() }`
withLockExit(l, fn) == release(l)

\* withLock settles: with what release() threw, else as fn settled
WithLockSettled(c, r) ==
    /\ lock' = r.lock
    /\ callers' = [Woken(callers, r.next) EXCEPT
                      ![c].pc = "done",
                      ![c].releases = @ + (IF r.lock # lock THEN 1 ELSE 0),
                      ![c].outcome = IF r.thrown THEN Rejected(AsyncLockErrorValue)
                                     ELSE callers[c].fn]
WithLockFinally(c) ==
    /\ callers[c].pc = "settled"
    /\ WithLockSettled(c, withLockExit(lock, callers[c].fn))
    /\ UNCHANGED <<counter, history, persisterVars, serverVars, replayVars, dbVars, appliedVars>>

\* release() called by code that holds nothing, while nobody holds the lock
Released(r) ==
    /\ lock' = r.lock
    /\ callers' = Woken(callers, r.next)
    /\ history' = [history EXCEPT !.strays = @ + 1,
                                  !.strayErrors = @ + (IF r.thrown THEN 1 ELSE 0)]
ReleaseUnheld ==
    /\ ~lock.locked
    /\ history.strays < MaxStrays
    /\ Released(release(lock))
    /\ UNCHANGED <<counter, persisterVars, serverVars, replayVars, dbVars, appliedVars>>

NextLock ==
    \/ \E c \in CallerIds, throws \in Throws : WithLockCall(c, throws)
    \/ \E c \in CallerIds : FnStart(c)
    \/ \E c \in CallerIds : FnResume(c)
    \/ \E c \in CallerIds : WithLockFinally(c)
    \/ ReleaseUnheld

SpecLock == InitLock /\ [][NextLock]_vars

\* The withLock callers alone, under fair scheduling: the event loop runs
\* the continuation of every settled promise, so a caller that has been
\* granted the lock starts its function, a function that has suspended
\* resumes, and a function that has settled reaches the `finally` that
\* releases. Callers arrive when they will, or never.
NextLockFair ==
    \/ \E c \in CallerIds, throws \in Throws : WithLockCall(c, throws)
    \/ \E c \in CallerIds : FnStart(c)
    \/ \E c \in CallerIds : FnResume(c)
    \/ \E c \in CallerIds : WithLockFinally(c)
LockFairness ==
    \A c \in CallerIds :
        /\ WF_vars(FnStart(c))
        /\ WF_vars(FnResume(c))
        /\ WF_vars(WithLockFinally(c))
SpecLockFair == InitLock /\ [][NextLockFair]_vars /\ LockFairness

(***************************************************************************)
(* AppendOnlyPersisters used directly on one path (store/persistence.ts,   *)
(* store/persistence.test.ts): logCommand, flush, close, and a further     *)
(* persister made once the one before it was closed. The write stream puts *)
(* its pending writes on disk one at a time and emits 'finish' once it was *)
(* ended and nothing is pending.                                           *)
(***************************************************************************)
MaxPersisters == 2
MaxCalls == 4
PersisterIds == 1..MaxPersisters

\* AppendOnlyPersister.logCommand with its catch block: thrown is the
\* AOFError it throws again after retaining it
logCommandResult(p, command) ==
    IF ~p.closed /\ command.t = "array" /\ serializeThrows(command)
                 /\ Len(command.v) > 0
    THEN [p |-> [p EXCEPT !.writeErrors = @ + 1], thrown |-> TRUE]
    ELSE [p |-> PersisterLogCommand(p, command), thrown |-> FALSE]

\* AppendOnlyPersister.close: closed = true, then flush(), which returns at
\* once because closed is set
PersisterClose(p) == PersisterFlush([p EXCEPT !.closed = TRUE])

\* the promise flush() returns: resolved for a closed persister, else settled
\* by the 'finish' listener that the callback of ws.end('') registers
FlushPromise(p, i) ==
    [p |-> i, state |-> IF p.closed THEN "resolved" ELSE "pending"]

LogArgs ==
    {WireArray(<<S_SET, <<"a">>, <<"1">>>>),
     WireArray(<<S_DEL, <<"a">>>>),
     AV(<<>>),
     Null,
     AV(<<SV(S_SET), Bare>>)}
Accepted(p, command) ==
    ~p.closed /\ command.t = "array" /\ Len(command.v) > 0 /\ ~serializeThrows(command)
Ignored(p, command) == p.closed \/ command.t # "array" \/ Len(command.v) = 0

InitPersister ==
    /\ memserv = NewMemServ
    /\ file \in {<<>>, Record(<<S_SET, <<"b">>, <<"2">>>>)}
    /\ fileAtBoot = file
    /\ now = Epoch
    /\ phase = "persister"
    /\ openConns = 0
    /\ acked = <<>>
    /\ prev = NoPrev
    /\ generation = 1
    /\ nCmds = 0
    /\ ticks = 0
    /\ restored = NotRestored
    /\ log = NoLog
    /\ lastSet = NoSet
    /\ LockUnused
    /\ ReplayUnused
    /\ DbUnused
    /\ AppliedUnused
    /\ persisters = <<NewPersister>>
    /\ finished = {}
    /\ calls = NoCalls

othersVars == <<memserv, now, phase, openConns, acked, fileAtBoot, prev,
                generation, nCmds, ticks, restored, log, lastSet, lockVars,
                replayVars, dbVars, appliedVars>>

\* new AppendOnlyPersister(filename) on the same path, after close() of the
\* one before it has resolved
PersisterConstruct ==
    /\ Len(persisters) < MaxPersisters
    /\ persisters[Len(persisters)].closed
    /\ persisters' = Append(persisters, NewPersister)
    /\ UNCHANGED <<file, finished, calls, othersVars>>

LogCommandDone(i, command, r) ==
    /\ persisters' = [persisters EXCEPT ![i] = r.p]
    /\ calls' = [calls EXCEPT
                    !.n = @ + 1,
                    !.logged = IF Accepted(persisters[i], command)
                               THEN Append(@, serialize(command)) ELSE @,
                    !.ignored = @ + (IF Ignored(persisters[i], command) THEN 1 ELSE 0),
                    !.raised = @ + (IF r.thrown THEN 1 ELSE 0)]
LogCommandCall(i, command) ==
    /\ i \in DOMAIN persisters
    /\ calls.n < MaxCalls
    /\ LogCommandDone(i, command, logCommandResult(persisters[i], command))
    /\ UNCHANGED <<file, finished, othersVars>>

\* flush(), not called while an earlier flush() of the persister is pending
FlushCall(i) ==
    /\ i \in DOMAIN persisters
    /\ calls.n < MaxCalls
    /\ persisters[i].ended /\ ~persisters[i].closed => i \in finished
    /\ persisters' = [persisters EXCEPT ![i] = PersisterFlush(@)]
    /\ calls' = [calls EXCEPT !.n = @ + 1,
                               !.flushes = Append(@, FlushPromise(persisters[i], i))]
    /\ UNCHANGED <<file, finished, othersVars>>

CloseCall(i) ==
    /\ i \in DOMAIN persisters
    /\ calls.n < MaxCalls
    /\ persisters' = [persisters EXCEPT ![i] = PersisterClose(@)]
    /\ calls' = [calls EXCEPT !.n = @ + 1]
    /\ UNCHANGED <<file, finished, othersVars>>

\* a stream puts its oldest pending write at the end of the file
StreamDrain(i) ==
    /\ i \in DOMAIN persisters
    /\ Len(persisters[i].buf) > 0
    /\ file' = file \o Head(persisters[i].buf)
    /\ persisters' = [persisters EXCEPT ![i].buf = Tail(@)]
    /\ UNCHANGED <<finished, calls, othersVars>>

\* 'finish': the callback of ws.end('') runs, then the listeners it registered
SettleFlushes(flushes, i) ==
    [k \in 1..Len(flushes) |->
        IF flushes[k].p = i THEN [flushes[k] EXCEPT !.state = "resolved"]
        ELSE flushes[k]]
StreamFinish(i) ==
    /\ i \in DOMAIN persisters
    /\ persisters[i].ended
    /\ Len(persisters[i].buf) = 0
    /\ i \notin finished
    /\ finished' = finished \cup {i}
    /\ calls' = [calls EXCEPT !.flushes = SettleFlushes(@, i)]
    /\ UNCHANGED <<file, persisters, othersVars>>

NextPersister ==
    \/ PersisterConstruct
    \/ \E i \in PersisterIds, command \in LogArgs : LogCommandCall(i, command)
    \/ \E i \in PersisterIds : FlushCall(i)
    \/ \E i \in PersisterIds : CloseCall(i)
    \/ \E i \in PersisterIds : StreamDrain(i)
    \/ \E i \in PersisterIds : StreamFinish(i)

SpecPersister == InitPersister /\ [][NextPersister]_vars

(***************************************************************************)
(* The server started when the persister cannot be constructed             *)
(* (server.ts initializePersistence, MemServLight.enablePersistence)       *)
(***************************************************************************)
\* new AppendOnlyPersister(filename): throws an AOFError when the directory
\* of the file cannot be made
PersisterConstructed(canMkdir) == [ok |-> canMkdir, persister |-> NewPersister]

\* MemServLight.enablePersistence: catches what the constructor throws
SetPersister(m, made) ==
    IF made.ok
    THEN [m |-> [m EXCEPT !.hasPersister = TRUE, !.persister = made.persister],
          result |-> TRUE]
    ELSE [m |-> m, result |-> FALSE]
enablePersistenceResult(m, canMkdir) == SetPersister(m, PersisterConstructed(canMkdir))

InitDegraded ==
    /\ memserv = NewMemServ
    /\ file = <<>>
    /\ now = Epoch
    /\ phase = "start"
    /\ openConns = 0
    /\ acked = <<>>
    /\ fileAtBoot = <<>>
    /\ prev = NoPrev
    /\ generation = 1
    /\ nCmds = 0
    /\ ticks = 0
    /\ restored = NotRestored
    /\ log = NoLog
    /\ lastSet = NoSet
    /\ LockUnused
    /\ PersistersUnused
    /\ ReplayUnused
    /\ DbUnused
    /\ AppliedUnused

\* initializePersistence when enablePersistence returns false: the AOFError
\* thrown for it skips restoreFromPersistence and is caught and reported,
\* and startServer goes on to listen
InitializeFailed(enabled) ==
    /\ ~enabled.result
    /\ memserv' = enabled.m
    /\ phase' = "serving"
InitializePersistenceFails ==
    /\ phase = "start"
    /\ InitializeFailed(enablePersistenceResult(memserv, FALSE))
    /\ UNCHANGED <<lockVars, persisterVars, replayVars, dbVars, appliedVars>>
    /\ UNCHANGED <<file, now, openConns, acked, fileAtBoot, prev, generation,
                   nCmds, ticks, restored, log, lastSet>>

NextDegraded ==
    \/ InitializePersistenceFails
    \/ Connect
    \/ Disconnect
    \/ \E request \in Requests : HandleData(request)
    \/ Tick
    \/ Shutdown
    \/ FlushDone
    \/ Exit

SpecDegraded == InitDegraded /\ [][NextDegraded]_vars

(***************************************************************************)
(* MemServLight.parse on its own (memserv/index.ts): a client encodes a    *)
(* request of a command name and arguments, parse is applied to the text.  *)
(***************************************************************************)
MaxArgs == 4
CommandNames == {<<"G", "E", "T">>, S_DEL, <<"E", "X", "I", "S", "T", "S">>,
                 <<"T", "T", "L">>, S_EXPIRE, S_SET, <<"F", "O", "O">>}
ArgTokens == {<<"k">>, <<"v">>, S_EX, <<"e", "x">>, <<"7">>, <<"7", "x">>}
ArgLists(n) == UNION {[1..k -> ArgTokens] : k \in 0..n}
RequestTokens ==
    {<<S_SET>> \o args : args \in ArgLists(MaxArgs)}
    \cup {<<name>> \o args : name \in CommandNames \ {S_SET},
                              args \in ArgLists(MaxArgs - 1)}

InitParse ==
    /\ ServerUnused
    /\ phase = "parse"
    /\ LockUnused
    /\ PersistersUnused
    /\ ReplayUnused
    /\ DbUnused
    /\ \E tokens \in RequestTokens :
          applied = [fn |-> "parse", stage |-> "input", input |-> tokens,
                     text |-> <<>>, output |-> ParseNull]

\* the client's serialize(request)
RequestEncode ==
    /\ applied.fn = "parse"
    /\ applied.stage = "input"
    /\ applied' = [applied EXCEPT !.text = serialize(WireArray(applied.input)),
                                  !.stage = "encoded"]
    /\ UNCHANGED <<serverVars, lockVars, persisterVars, replayVars, dbVars>>

\* memserv.parse(request)
ParseCall ==
    /\ applied.fn = "parse"
    /\ applied.stage = "encoded"
    /\ applied' = [applied EXCEPT !.output = parse(applied.text), !.stage = "done"]
    /\ UNCHANGED <<serverVars, lockVars, persisterVars, replayVars, dbVars>>

NextParse ==
    \/ RequestEncode
    \/ ParseCall

SpecParse == InitParse /\ [][NextParse]_vars

(***************************************************************************)
(* The codec on its own (serializer): a value is serialized and the text   *)
(* deserialized, or deserialize is given a damaged text.                   *)
(***************************************************************************)
MaxArrayLen == 2
Scalars == {Null, NV(0), NV(1), NV(42), NV(-3), SV(<<>>), SV(<<"a">>), SV(<<CR>>),
            BV(TRUE), BV(FALSE)}
FlatArrays == {AV(<<>>)} \cup {AV(<<x>>) : x \in Scalars}
Elements == Scalars \cup FlatArrays \cup {AV(<<AV(<<AV(<<>>)>>)>>)}
RespValues ==
    Scalars \cup {AV(items) : items \in UNION {[1..n -> Elements] : n \in 0..MaxArrayLen}}

T(a, b) == <<a, b>> \o CRLF
DamagedTexts ==
    {[kind |-> "empty", text |-> <<>>],
     [kind |-> "short array", text |-> T("*", "2") \o T("+", "a")],
     [kind |-> "short array", text |-> T("*", "1")],
     [kind |-> "short array", text |-> T("*", "4") \o T("+", "a")],
     [kind |-> "short array", text |-> T("*", "1") \o T("*", "2") \o T("+", "a")],
     [kind |-> "short bulk", text |-> T("$", "5") \o T("a", "b")],
     [kind |-> "short bulk", text |-> T("$", "3")],
     [kind |-> "short bulk", text |-> T("*", "1") \o T("$", "5") \o T("a", "b")],
     [kind |-> "not a number", text |-> T("*", "x") \o T("+", "a")],
     [kind |-> "not a number", text |-> T("$", "x") \o T("a", "b")],
     [kind |-> "not a number", text |-> T("*", "1") \o T("$", "x") \o T("a", "b")]}

InitCodec ==
    /\ ServerUnused
    /\ phase = "codec"
    /\ LockUnused
    /\ PersistersUnused
    /\ ReplayUnused
    /\ DbUnused
    /\ \/ \E v \in RespValues :
             applied = [fn |-> "roundtrip", stage |-> "input", kind |-> "value",
                        input |-> v, text |-> <<>>, output |-> Thrown]
       \/ \E d \in DamagedTexts :
             applied = [fn |-> "deserialize", stage |-> "encoded", kind |-> d.kind,
                        input |-> Null, text |-> d.text, output |-> Thrown]

\* serialize(value)
SerializeCall ==
    /\ applied.fn = "roundtrip"
    /\ applied.stage = "input"
    /\ applied' = [applied EXCEPT !.text = serialize(applied.input),
                                  !.stage = "encoded"]
    /\ UNCHANGED <<serverVars, lockVars, persisterVars, replayVars, dbVars>>

\* deserialize(text)
DeserializeCall ==
    /\ applied.fn \in {"roundtrip", "deserialize"}
    /\ applied.stage = "encoded"
    /\ applied' = [applied EXCEPT !.output = deserialize(applied.text),
                                  !.stage = "done"]
    /\ UNCHANGED <<serverVars, lockVars, persisterVars, replayVars, dbVars>>

NextCodec ==
    \/ SerializeCall
    \/ DeserializeCall

SpecCodec == InitCodec /\ [][NextCodec]_vars

(***************************************************************************)
(* Properties                                                              *)
(***************************************************************************)
\* the record a command is logged with
RecordOf(c) ==
    serialize(WireArray(
        CASE c.command = "set" ->
                <<S_SET, c.key, c.value>>
                \o (IF c.ttl.t = "number" THEN <<S_EX, String(c.ttl)>> ELSE <<>>)
          [] c.command = "del" -> <<S_DEL, c.key>>
          [] c.command = "clear" -> <<S_CLEAR>>
          [] c.command = "expire" -> <<S_EXPIRE, c.key, IntToStr(c.seconds)>>
          [] OTHER -> <<>>))
RecordsOf(commands) == Concat([i \in 1..Len(commands) |-> RecordOf(commands[i])])

\* the log as it will stand once the pending writes are on disk
LogText == file \o Concat(memserv.persister.buf)

\* the keys that are live at time t, each with its value
LiveEntries(store, t) ==
    {<<store[i].key, store[i].value>> :
        i \in {j \in 1..Len(store) : ~isExpired(store[j], t)}}

\* C1: a log that holds the record of every mutation one process applied to
\* an empty store, replayed by the next process into a fresh store with no
\* time passing, gives the live keys and values the first process had.
C1_ReplayRebuildsStore ==
    (generation = 2 /\ restored.done /\ fileAtBoot = RecordsOf(prev.acked))
        => /\ restored.result
           /\ LiveEntries(restored.store, now) = LiveEntries(prev.store, now)

\* C2: the log holds the records of the mutations applied so far, in the
\* order they were applied, and never a record whose mutation has not been
\* applied: it is the records of a prefix of the applied mutations, and of
\* all of them as long as the stream has not been ended.
C2_LogFollowsApplication ==
    /\ \E n \in 0..Len(acked) :
          LogText = fileAtBoot \o RecordsOf(SubSeq(acked, 1, n))
    /\ ~memserv.persister.ended => LogText = fileAtBoot \o RecordsOf(acked)

\* two different mutations applied, the first one's record on disk and the
\* second one's still pending
C2_Witness ==
    /\ Len(acked) = 2
    /\ acked[1] # acked[2]
    /\ file = RecordOf(acked[1])
    /\ memserv.persister.buf = <<RecordOf(acked[2])>>

\* C3: when the process has exited, the log holds the record of every
\* mutation it answered with success.
C3_AckedAreLogged ==
    phase = "exited" => file = fileAtBoot \o RecordsOf(acked)

\* C4: of a log cut off inside its last record, read as one chunk,
\* restoreFromFile executes the whole records before the cut, once each and
\* in order, executes nothing of the cut record, and returns true.
C4_TruncatedTailIgnored ==
    (restored.done /\ log.kind = "truncated" /\ restored.chunks = 1)
        => restored.result /\ restored.executed = log.expected

\* C5: of a log of whole records, restoreFromFile executes the records'
\* commands, once each and in order, however the read stream cuts the log
\* into chunks.
C5_ChunkingIndependent ==
    (restored.done /\ log.kind = "valid")
        => restored.result /\ restored.executed = log.expected

\* C6: of a log with one malformed record between two valid ones, read as one
\* chunk, restoreFromFile executes the two valid records' commands, unaltered
\* and in order, and returns true.
C6_MalformedSkipped ==
    (restored.done /\ log.kind = "malformed" /\ restored.chunks = 1)
        => /\ restored.result
           /\ \E i, j \in 1..Len(restored.executed) :
                 /\ i < j
                 /\ restored.executed[i] = log.expected[1]
                 /\ restored.executed[j] = log.expected[2]

\* C7: ttl of a key that is absent or expired differs from ttl of a key that
\* is present without expiry.
C7_AbsentSentinelDiffers ==
    \A absent, lasting \in Keys :
        (/\ ~DbExists(memserv.store, absent, now).result
         /\ DbExists(memserv.store, lasting, now).result
         /\ MapGet(memserv.store, lasting).expiry = Undefined)
            => DbTtl(memserv.store, absent, now) # DbTtl(memserv.store, lasting, now)

\* C8: after set(k, v, N) and no later write to k: as long as fewer than N
\* seconds have passed ttl(k) is in 0..N, and from then on get(k) gives
\* nothing and exists(k) is false.
C8_TtlWindow ==
    \A key \in Keys :
        lastSet[key].set =>
            IF now - lastSet[key].at < lastSet[key].ttl * 1000
            THEN DbTtl(memserv.store, key, now) \in 0..lastSet[key].ttl
            ELSE /\ DbGet(memserv.store, key, now).result = Null
                 /\ ~DbExists(memserv.store, key, now).result

\* what executing c does to the persister of engine m, m1 being the engine
\* execute leaves: one record submitted for a mutation outside restoration
\* mode, nothing otherwise
SubmitsAsItShould(c, m, m1) ==
    m1.persister = IF IsMutation(c, m.store, now) /\ ~m.isRestoring
                   THEN WsWrite(m.persister, RecordOf(c))
                   ELSE m.persister
ExecuteSubmits(command, m) ==
    command.r = "cmd" => SubmitsAsItShould(command.cmd, m, execute(m, command.cmd, now).m)

\* what parse makes of the requests clients send
ParsedRequests == {parse(request) : request \in Requests}

\* C9: in every state of the engine, and for every request, execute hands
\* the persister exactly one record if the request is a SET, a CLEAR, a DEL
\* that removes an entry or an EXPIRE that sets an expiry, and nothing if it
\* is any other request; in restoration mode it hands over nothing at all.
C9_SubmitsExactlyMutations ==
    \A command \in ParsedRequests, restoring \in BOOLEAN :
        ExecuteSubmits(command, [memserv EXCEPT !.isRestoring = restoring])

\* a SET and then a DEL that removed its entry, answered and both logged, in a
\* state where a second DEL would remove nothing
C9_Witness ==
    /\ Len(acked) = 2
    /\ acked[1].command = "set"
    /\ acked[2].command = "del"
    /\ acked[2].key = acked[1].key
    /\ LogText = RecordsOf(acked)
    /\ ~MapHas(memserv.store, acked[2].key)

\* C10: when restoreFromFile has returned, the log is what it was before:
\* nothing has been written and nothing is pending.
C10_ReplayLeavesLog ==
    restored.done => /\ LogText = fileAtBoot
                     /\ file = fileAtBoot
                     /\ memserv.persister.writeErrors = 0

\* a log of two whole records has been replayed, both executed
C10_Witness ==
    /\ restored.done
    /\ log.kind = "valid"
    /\ Len(restored.executed) = 2
    /\ Len(fileAtBoot) > 0
    /\ LogText = fileAtBoot

\* the callers that hold the lock: granted it and not yet through release()
Holders == {c \in DOMAIN callers : callers[c].pc \in {"granted", "inside", "settled"}}
\* the callers whose function ran to its return
Incremented ==
    {c \in DOMAIN callers : callers[c].pc \in {"settled", "done"}
                            /\ callers[c].fn.state = "resolved"}
IsPrefix(s, t) == Len(s) <= Len(t) /\ SubSeq(t, 1, Len(s)) = s
Before(c, d, order) ==
    \E i, j \in 1..Len(order) : i < j /\ order[i] = c /\ order[j] = d

\* C11: of the withLock callers of one AsyncLock at most one is between the
\* grant of the lock and its release, so at most one function is inside its
\* critical section; no increment is lost: the counter is the number of
\* functions that returned, and their results are 1 up to that number.
C11_OneAtATime ==
    /\ Cardinality(Holders) <= 1
    /\ Cardinality({c \in DOMAIN callers : callers[c].pc = "inside"}) <= 1
    /\ counter = Cardinality(Incremented)
    /\ {callers[c].fn.value : c \in Incremented} = 1..counter
C11_Witness ==
    /\ phase = "lock"
    /\ \A c \in DOMAIN callers : callers[c].outcome.state = "resolved"
    /\ counter = MaxCallers
    /\ history.peak = MaxCallers - 1

\* C12: the callers enter their critical sections in the order in which they
\* called acquire().
C12_Fifo == IsPrefix(history.entered, history.arrived)
C12_Witness ==
    /\ phase = "lock"
    /\ Len(history.entered) = MaxCallers
    /\ history.peak >= 2

\* C13: a withLock whose function threw rejects with that function's error
\* and has released the lock once; the lock is never left held with no
\* caller to release it, and callers wait only while it is held.
C13_ReleasedOnFailure ==
    /\ \A c \in DOMAIN callers :
          callers[c].pc = "done" =>
             /\ callers[c].releases = 1
             /\ callers[c].outcome = callers[c].fn
             /\ callers[c].throws # "no" => callers[c].outcome = Rejected(c)
    /\ lock.locked <=> Holders # {}
    /\ Len(lock.waitQueue) > 0 => lock.locked
C13_Witness ==
    \E c, d \in DOMAIN callers :
        /\ callers[c].outcome = Rejected(c)
        /\ callers[d].outcome.state = "resolved"
        /\ Before(c, d, history.arrived)

\* C14: release() on a lock that is not held throws AsyncLockError and
\* leaves the lock as it was.
C14_ReleaseUnheldThrows ==
    /\ history.strayErrors = history.strays
    /\ phase = "lock" /\ ~lock.locked =>
          release(lock) = [lock |-> lock, thrown |-> TRUE, next |-> {}]
C14_Witness ==
    /\ history.strays > 0
    /\ \E c \in DOMAIN callers : callers[c].pc = "done"
    /\ ~lock.locked

\* no stream has a write pending
Quiescent == \A i \in DOMAIN persisters : Len(persisters[i].buf) = 0

\* C15: once close() has resolved, nothing the persister was given before is
\* still waiting to be written: it is all in the file.
C15_CloseFlushes ==
    \A i \in DOMAIN persisters : persisters[i].closed => Len(persisters[i].buf) = 0

\* C16: logCommand never raises; a failure to encode or write is only
\* retained in the write-error list.
C16_LogCommandNeverRaises == calls.raised = 0

\* C17: the file always starts with what it held before, and once nothing is
\* pending it is that content followed by the records of the argument lists
\* logCommand took on an open persister, in call order.
C17_AppendOnly ==
    /\ IsPrefix(fileAtBoot, file)
    /\ Quiescent => file = fileAtBoot \o Concat(calls.logged)

\* C18: logCommand on a closed persister, or with an empty list or something
\* that is no list, returns without raising and leaves the persister, its
\* pending writes included, as it was.
C18_IgnoredCallsChangeNothing ==
    \A i \in DOMAIN persisters, command \in LogArgs :
        Ignored(persisters[i], command) =>
           logCommandResult(persisters[i], command)
              = [p |-> persisters[i], thrown |-> FALSE]
C18_Witness ==
    /\ calls.ignored > 0
    /\ Len(calls.logged) = 1
    /\ persisters[1].closed
    /\ file = fileAtBoot \o calls.logged[1]

\* C19: every flush() on a stream that has finished, and every flush() on a
\* closed persister, has resolved.
C19_FlushSettles ==
    \A k \in 1..Len(calls.flushes) :
        calls.flushes[k].state = "pending" => calls.flushes[k].p \notin finished

\* executing c without a persister (d) answers and changes the store as with
\* one (w), and leaves the unused persister field of m alone
SameService(d, w, m) ==
    /\ d.reply = w.reply
    /\ d.m.store = w.m.store
    /\ d.m.persister = m.persister
    /\ ~d.m.hasPersister
ServesWithout(command, m) ==
    command.r = "cmd" =>
        SameService(execute(m, command.cmd, now),
                    execute(enablePersistence(m), command.cmd, now), m)

\* C20: when the persister cannot be constructed enablePersistence returns
\* false and installs none; from then on every request is answered and
\* changes the store as it would with a persister, and nothing is appended
\* to any log.
C20_ServesWithoutPersister ==
    /\ enablePersistenceResult(memserv, FALSE) = [m |-> memserv, result |-> FALSE]
    /\ ~memserv.hasPersister
    /\ memserv.persister = NewPersister
    /\ file = fileAtBoot
    /\ \A command \in ParsedRequests : ServesWithout(command, memserv)
C20_Witness ==
    /\ phase = "exited"
    /\ ~memserv.hasPersister
    /\ Len(acked) = MaxCmds
    /\ Len(memserv.store) > 0

\* C21: when the execution of a replayed record replies with the error marker
\* or raises, restoreFromFile has returned false in that very iteration, and
\* no record after the failing one is ever executed.
C21_AbortsOnExecuteFailure ==
    replay.rs.fault.kind # "none" =>
        /\ Len(replay.rs.executed) <= replay.rs.fault.at
        /\ Len(replay.rs.executed) = replay.rs.fault.at =>
              /\ replay.rs.failed
              /\ replay.stage = "returned"
              /\ ~replay.result
              /\ ~replay.rs.m.isRestoring
C21_Witness ==
    /\ replay.stage = "returned"
    /\ ~replay.result
    /\ replay.rs.fault.at = 1
    /\ Len(replay.rs.executed) = 1
    /\ Len(log.expected) = 2

\* C22: restoreFromFile terminates on every log: an iteration of its loop
\* that goes round again has shortened the buffer, and the iterations number at
\* most the bytes of the file plus one per chunk.
C22_LoopProgresses ==
    /\ replay.rs.again => Len(replay.rs.buffer) < replay.lastLen
    /\ replay.iterations <= Len(file) + replay.nChunks
C22_Witness ==
    /\ replay.stage = "returned"
    /\ log.kind = "malformed"
    /\ replay.iterations > Len(replay.rs.executed) + replay.nChunks

\* a step is a call of one of these methods: every step but the clock's
\* records the method it calls
Called(ops) == dbCall'.op \in ops /\ ticks' = ticks

\* the entries of the keys other than key are the same in both stores
OthersUnchanged(before, after, key) ==
    \A k \in Keys \ {key} :
        /\ MapHas(before, k) = MapHas(after, k)
        /\ MapHas(before, k) => MapGet(before, k) = MapGet(after, k)

\* C23: set(k, v, ttl) returns true and leaves for k an entry made from this
\* call alone, whatever k held before: get(k) at once gives v, the entry has
\* no expiry when no ttl was given and expires ttl seconds from now when a
\* ttl of a second or more was, and no other entry changes.
SetReplaces(key, value, ttl) ==
    /\ dbCall'.result = BV(TRUE)
    /\ DbGet(memserv'.store, key, now').result = SV(value)
    /\ MapGet(memserv'.store, key) = MapGet(DbSet(<<>>, key, value, ttl, now).store, key)
    /\ ttl = Undefined => MapGet(memserv'.store, key).expiry = Undefined
    /\ (ttl.t = "number" /\ ttl.v >= 1) =>
          MapGet(memserv'.store, key).expiry = NV(now + ttl.v * 1000)
    /\ OthersUnchanged(memserv.store, memserv'.store, key)
DeleteRemoves(key) ==
    /\ dbCall'.result = BV(MapHas(memserv.store, key))
    /\ ~MapHas(memserv'.store, key)
    /\ OthersUnchanged(memserv.store, memserv'.store, key)
    /\ Len(memserv'.store) = Len(memserv.store) - (IF MapHas(memserv.store, key) THEN 1 ELSE 0)
    /\ DbGet(memserv'.store, key, now').result = Null
    /\ ~DbExists(memserv'.store, key, now').result
    /\ executeDel(memserv, [Command("del") EXCEPT !.key = key]).reply
          = (IF MapHas(memserv.store, key) THEN ONE ELSE ZERO)
    /\ executeDel(memserv, [Command("del") EXCEPT !.key = key]).m.store = memserv'.store
C24_DeleteReportsPresence ==
    [][Called({"delete"}) => DeleteRemoves(dbCall'.key)]_vars
C24_Witness ==
    /\ dbCall.op = "delete"
    /\ dbCall.found = "expired"
    /\ dbCall.result = BV(TRUE)
    /\ Len(memserv.store) = 1

\* C25: expire(k, s) on a key that is absent or expired returns false and
\* leaves the store as it was; on a live key it returns true, sets the
\* entry's expiry to now + s * 1000, and changes nothing else.
ExpireFrames(key, seconds) ==
    IF Found(memserv.store, key, now) \in {"absent", "expired"}
    THEN /\ dbCall'.result = BV(FALSE)
         /\ memserv'.store = memserv.store
    ELSE /\ dbCall'.result = BV(TRUE)
         /\ MapHas(memserv'.store, key)
         /\ MapGet(memserv'.store, key)
               = [MapGet(memserv.store, key) EXCEPT !.expiry = NV(now + seconds * 1000)]
         /\ OthersUnchanged(memserv.store, memserv'.store, key)
         /\ Len(memserv'.store) = Len(memserv.store)
C25_ExpireFrame ==
    [][Called({"expire"}) => ExpireFrames(dbCall'.key, 1)]_vars
C25_Witness ==
    /\ dbCall.op = "expire"
    /\ dbCall.found = "expired"
    /\ dbCall.result = BV(FALSE)
    /\ Found(memserv.store, dbCall.key, now) = "expired"

\* the glob match of the claim: anchored, `*` any run of characters, `?`
\* exactly one character, any other character itself
RECURSIVE GlobMatch(_, _)
GlobMatch(pattern, key) ==
    IF Len(pattern) = 0 THEN Len(key) = 0
    ELSE IF pattern[1] = "*"
    THEN \E n \in 0..Len(key) : GlobMatch(Tail(pattern), substring(key, n))
    ELSE IF pattern[1] = "?"
    THEN Len(key) > 0 /\ GlobMatch(Tail(pattern), Tail(key))
    ELSE Len(key) > 0 /\ key[1] = pattern[1] /\ GlobMatch(Tail(pattern), Tail(key))

\* C26: keys(p) returns exactly the live keys that match the glob p.
C26_KeysMatchGlob ==
    \A pattern \in Patterns :
        {DbKeys(memserv.store, pattern, now).result[i] :
            i \in 1..Len(DbKeys(memserv.store, pattern, now).result)}
          = {k \in Keys : /\ Found(memserv.store, k, now) \in {"live", "lasting"}
                          /\ GlobMatch(pattern, k)}

\* a text that is an integer numeral: an optional sign, then digits only
IsIntegerText(s) ==
    /\ Len(s) > 0
    /\ LET body == IF s[1] \in {"-", "+"} THEN Tail(s) ELSE s
       IN  Len(body) > 0 /\ \A i \in 1..Len(body) : IsDigit(body[i])
IntegerOf(s) ==
    IF s[1] = "-" THEN 0 - DigitsValue(Tail(s), 0)
    ELSE IF s[1] = "+" THEN DigitsValue(Tail(s), 0)
    ELSE DigitsValue(s, 0)

KnownKinds ==
    {<<"p", "i", "n", "g">>, <<"e", "c", "h", "o">>, <<"s", "e", "t">>,
     <<"g", "e", "t">>, <<"d", "e", "l">>, <<"e", "x", "i", "s", "t", "s">>,
     <<"k", "e", "y", "s">>, <<"c", "l", "e", "a", "r">>,
     <<"e", "x", "p", "i", "r", "e">>, <<"t", "t", "l">>, <<"i", "n", "f", "o">>}
\* the requests the claim calls not a command, by kind and arguments
NotACommand(kind, args) ==
    \/ kind \notin KnownKinds
    \/ /\ kind \in {<<"g", "e", "t">>, <<"d", "e", "l">>,
                     <<"e", "x", "i", "s", "t", "s">>, <<"t", "t", "l">>}
       /\ Len(args) # 1
    \/ /\ kind = <<"e", "x", "p", "i", "r", "e">>
       /\ (Len(args) # 2 \/ ~IsIntegerText(args[2]))
    \/ /\ kind = <<"s", "e", "t">>
       /\ Len(args) < 2

\* C27: parse returns null, without raising, for a request of an unknown
\* kind, for GET, DEL, EXISTS or TTL with other than one argument, for EXPIRE
\* with other than two arguments or with seconds that are no integer, and
\* for SET with fewer than two arguments.
C27_ArityViolationsGiveNull ==
    (/\ applied.fn = "parse"
     /\ applied.stage = "done"
     /\ NotACommand(toLowerCase(Head(applied.input)), Tail(applied.input)))
        => applied.output = ParseNull

\* what the claim says a SET with arguments key, words... is parsed into
SetExpected(key, words) ==
    IF /\ Len(words) >= 2
       /\ words[Len(words) - 1] = S_EX
       /\ IsIntegerText(words[Len(words)])
    THEN ParseCmd([Command("set") EXCEPT
                      !.key = key,
                      !.value = join(SubSeq(words, 1, Len(words) - 2), <<" ">>),
                      !.ttl = NV(IntegerOf(words[Len(words)]))])
    ELSE ParseCmd([Command("set") EXCEPT
                      !.key = key,
                      !.value = join(words, <<" ">>)])

\* C28: of a SET with at least two arguments, the last two are taken as the
\* TTL exactly when the one before the last is EX and the last is an
\* integer; the value is the words from after the key to there, or to the
\* end, joined by single spaces.
C28_SetTtlRecognition ==
    (/\ applied.fn = "parse"
     /\ applied.stage = "done"
     /\ Head(applied.input) = S_SET
     /\ Len(applied.input) >= 3)
        => applied.output = SetExpected(applied.input[2], SubSeq(applied.input, 3, Len(applied.input)))

\* a value as the claim expects it back: true and false as 1 and 0
RECURSIVE Normal(_)
Normal(v) ==
    CASE v.t = "boolean" -> NV(v.v)
      [] v.t = "array" -> AV([i \in 1..Len(v.v) |-> Normal(v.v[i])])
      [] OTHER -> v

\* C29: deserialize(serialize(v)) is v, with true and false as 1 and 0, for
\* null, integers, strings without the line terminator and arrays of these.
C29_RoundTrip ==
    (applied.fn = "roundtrip" /\ applied.stage = "done")
        => /\ applied.output.ok
           /\ applied.output.value = Normal(applied.input)
C29_Witness ==
    /\ applied.fn = "roundtrip"
    /\ applied.stage = "done"
    /\ applied.input = AV(<<AV(<<BV(TRUE)>>), SV(<<>>)>>)
    /\ applied.output.value = AV(<<AV(<<NV(1)>>), SV(<<>>)>>)

\* C30: deserialize raises on empty input, on an array that declares more
\* elements than the text holds, on a bulk string whose declared length
\* exceeds its data, and on a length or count that is not a number.
C30_DamagedTextRaises ==
    (applied.fn = "deserialize" /\ applied.stage = "done") => ~applied.output.ok

\* C31: the server takes connections and commands only once the restore has
\* returned, so no command is handled while the engine is in restoration
\* mode, and every mutation a client was answered is in the log, behind what
\* the log held at the start.
C31_ServesAfterRestore ==
    /\ phase # "boot" => replay.stage = "returned" /\ ~memserv.isRestoring
    /\ (openConns > 0 \/ nCmds > 0) => phase # "boot"
    /\ replay.stage # "returned" => acked = <<>>
    /\ LogText = fileAtBoot \o RecordsOf(acked)
C31_Witness ==
    /\ phase = "serving"
    /\ replay.path = "end"
    /\ replay.nChunks = 2
    /\ Len(replay.rs.executed) = 2
    /\ Len(acked) = 1
    /\ LogText = fileAtBoot \o RecordsOf(acked)

\* the entries of the map that have expired at the time given
ExpiredAt(store, at) == {i \in 1..Len(store) : isExpired(store[i], at)}

\* C32: when keys(pattern) or cleanupExpired() returns, the map holds no
\* expired entry, and cleanupExpired returns the number of entries that were
\* expired when it was called, which is the number it removed.
Swept ==
    /\ ExpiredAt(memserv'.store, now') = {}
    /\ dbCall'.op = "cleanupExpired" =>
          /\ dbCall'.result = NV(Cardinality(ExpiredAt(memserv.store, now)))
          /\ dbCall'.result = NV(Len(memserv.store) - Len(memserv'.store))
C32_SweepsLeaveNoExpired ==
    [][Called({"keys", "cleanupExpired"}) => Swept]_vars
C32_Witness ==
    /\ dbCall.op = "cleanupExpired"
    /\ dbCall.result = NV(1)
    /\ Len(memserv.store) = 1
    /\ ticks = MaxDbTicks

\* C33: of a log with a record between two valid ones that decodes to an
\* array but is no command, read as one chunk, restoreFromFile executes the
\* two valid records' commands, the second one after the first, and returns
\* true.
C33_NotCommandSkipped ==
    (restored.done /\ log.kind = "notcommand" /\ restored.chunks = 1)
        => /\ restored.result
           /\ restored.executed = log.expected

\* C34: a key whose entry had expired when the process exited is not live
\* in the next process once it has replayed the whole log, read as one
\* chunk, into its empty store and before it takes any command: get gives
\* nothing for the key and exists is false.
ExpiredAtExit ==
    {k \in Keys : MapHas(prev.store, k) /\ isExpired(MapGet(prev.store, k), prev.at)}
C34_ExpiredStayExpired ==
    (/\ generation = 2 /\ restored.done /\ restored.result
     /\ restored.chunks = 1
     /\ acked = <<>>
     /\ fileAtBoot = RecordsOf(prev.acked))
        => \A k \in ExpiredAtExit :
              /\ DbGet(memserv.store, k, now).result = Null
              /\ ~DbExists(memserv.store, k, now).result

\* C35: a record given to logCommand of a persister that is not closed, after
\* a flush() of it has resolved, joins the stream's pending writes and so
\* reaches the file like any other record.
FlushResolved(i) ==
    \E k \in 1..Len(calls.flushes) :
        calls.flushes[k].p = i /\ calls.flushes[k].state = "resolved"
C35_UsableAfterFlush ==
    [][\A i \in PersisterIds, command \in LogArgs :
          (/\ i \in DOMAIN persisters
           /\ ~persisters[i].closed
           /\ FlushResolved(i)
           /\ Accepted(persisters[i], command)
           /\ LogCommandCall(i, command))
             => persisters'[i].buf = Append(persisters[i].buf, serialize(command))]_vars

\* C36: for every key the GET reply is the null reply exactly when the
\* EXISTS reply is 0, and a key that is live gets its stored value back from
\* GET, the empty string included.
GetOf(k) == executeGet(memserv, [Command("get") EXCEPT !.key = k], now).reply
ExistsOf(k) == executeExists(memserv, [Command("exists") EXCEPT !.key = k], now).reply
C36_GetAgreesWithExists ==
    \A k \in Keys :
        /\ (GetOf(k) = NULL) <=> (ExistsOf(k) = ZERO)
        /\ Found(memserv.store, k, now) \in {"live", "lasting"} =>
              GetOf(k) = serialize(SV(MapGet(memserv.store, k).value))

\* C37: get, exists, keys, ttl and cleanupExpired leave every entry that has
\* not expired in the map, with its value and its expiry.
LiveKept ==
    \A k \in Keys :
        Found(memserv.store, k, now) \in {"live", "lasting"} =>
            /\ MapHas(memserv'.store, k)
            /\ MapGet(memserv'.store, k) = MapGet(memserv.store, k)
C37_ReadsKeepLiveEntries ==
    [][Called({"get", "exists", "keys", "ttl", "cleanupExpired"}) => LiveKept]_vars
C37_Witness ==
    /\ dbCall.op = "cleanupExpired"
    /\ dbCall.result = NV(1)
    /\ Len(memserv.store) = 1
    /\ Found(memserv.store, memserv.store[1].key, now) = "live"

\* C38: when restoreFromFile has returned, whichever way (no file, end of
\* the stream, a failed execution, a failed read), the engine is out of
\* restoration mode and logs the mutating commands it executes from then on;
\* it returns true at the end of the stream and without a file, false after
\* a failure; without a file it returns at once, the engine never in
\* restoration mode and left, its store included, as it was.
MutatingCommands ==
    {[cmd |-> parse(Record(args)).cmd, record |-> Record(args)] : args \in MutatingArgs}
LogsAgain(m) ==
    \A c \in MutatingCommands :
        IsMutation(c.cmd, m.store, now) =>
            execute(m, c.cmd, now).m.persister.buf = Append(m.persister.buf, c.record)
C38_RestorationModeOffOnReturn ==
    /\ replay.stage = "called" => ~memserv.isRestoring
    /\ replay.stage = "returned" =>
          /\ ~memserv.isRestoring
          /\ replay.rs.m = memserv
          /\ LogsAgain(memserv)
          /\ replay.result <=> replay.path \in {"missing", "end"}
          /\ replay.path = "missing" =>
                /\ memserv = enablePersistence(NewMemServ)
                /\ replay.iterations = 0
                /\ replay.rs.executed = <<>>
C38_Witness ==
    /\ replay.stage = "returned"
    /\ replay.path = "read error"
    /\ ~replay.result
    /\ Len(replay.rs.executed) = 1
    /\ Len(memserv.store) = 1
    /\ ~memserv.isRestoring

\* C39: whenever a caller waits in the queue the lock is marked held, and the
\* lock stays marked held from a release that wakes a waiter until that
\* waiter goes on: a caller that calls acquire in between is queued behind
\* it and does not enter before it.
Resuming == {c \in DOMAIN callers : callers[c].pc = "granted"}
C39_HandOverKeepsLockHeld ==
    /\ Len(lock.waitQueue) > 0 => lock.locked
    /\ Resuming # {} => lock.locked
    /\ \A c \in Resuming, d \in DOMAIN callers :
          Before(c, d, history.arrived) =>
             /\ callers[d].pc = "waiting"
             /\ \E i \in 1..Len(lock.waitQueue) : lock.waitQueue[i] = d
C39_Witness ==
    \E c, d, e \in DOMAIN callers :
        /\ callers[e].pc = "done"
        /\ callers[c].pc = "granted"
        /\ callers[d].pc = "waiting"
        /\ history.arrived = <<e, c, d>>
        /\ history.peak = 1

\* C40: under fair scheduling, with every function settling, every caller
\* that has to wait for the lock is granted it in the end.
C40_WaitersAreServed ==
    \A c \in CallerIds :
        (callers[c].pc = "waiting") ~> (callers[c].pc = "granted")
C40_Witness ==
    \E c \in DOMAIN callers :
        /\ callers[c].pc = "inside"
        /\ Len(history.arrived) = MaxCallers
        /\ history.arrived[MaxCallers] = c
        /\ history.peak = MaxCallers - 1

====
